---- MODULE Spec2Model ----
(***************************************************************************)
(* A model of node-enumerable (src/lib/index.ts): the cursor classes       *)
(* IteratorEnumerator / ArrayEnumerator, the item context, the sequence    *)
(* classes Enumerable / ArrayEnumerable, the factory from(), the lazy      *)
(* generator stages and the terminal operators.                            *)
(*                                                                         *)
(* Objects with identity live in `heap` (a sequence of records, the id of  *)
(* an object is its position).  A generator is always owned by exactly one *)
(* IteratorEnumerator (its _iterator field), so generator frames are kept  *)
(* inline in the owning cursor.  JavaScript values are integers: 0 is      *)
(* undefined, n >= 1 is an item, -id is a reference to heap object id.     *)
(***************************************************************************)
EXTENDS Integers, Sequences, FiniteSets, TLC

VARIABLES
    given,     \* the array the caller starts from
    heap,      \* the objects created so far
    cursors,   \* ids of the cursors handed out by getEnumerator()
    last       \* what the most recent call did and returned

vars == <<given, heap, cursors, last>>

-----------------------------------------------------------------------------
(* Bounds of the model                                                     *)

MaxLen == 3      \* longest source array
MaxHeap == 5     \* most objects alive at once
MaxSeqs == 2     \* most sequence objects alive at once
MaxCursors == 2  \* most cursors the caller steps by hand
MaxLazyHeap == 6 \* most objects alive after a call of zip

Items == {1, 2}
Arrays == UNION {[1..n -> Items] : n \in 0..MaxLen}

-----------------------------------------------------------------------------
(* Values                                                                  *)

Undefined == 0
RefOf(id) == 0 - id

\* An argument of type Sequence<T>: absent, an array-like value, or an object.
NoArg == [kind |-> "undefined"]
ArrayArg(a) == [kind |-> "array", arr |-> a]
ObjectArg(id) == [kind |-> "object", id |-> id]

\* IteratorResult<T>; `set` is false while _current is undefined or null.
NoResult == [set |-> FALSE, value |-> Undefined, done |-> FALSE]
IteratorResult(v, d) == [set |-> TRUE, value |-> v, done |-> d]

Alloc(w, obj) == [w EXCEPT !.heap = Append(w.heap, obj)]
Put(w, id, obj) == [w EXCEPT !.heap[id] = obj]

\* The value v a call returned, under the name the code after the call gives it
Bind(v, Rest(_)) == Rest(v)

-----------------------------------------------------------------------------
(* makeIterable: a generator function                                      *)

isArrayLike(val) == val.kind = "array"

\* Calling the generator function creates a suspended frame.
makeIterable(val) == [kind |-> "makeIterable", val |-> val, i |-> 0, pc |-> "start"]

\* One next() of the frame.  An array-like val is yielded item by item; for
\* any other truthy val the body executes `return val`, which completes the
\* generator with that value and yields nothing.
makeIterableNext(g) ==
    IF g.pc = "done"
    THEN [g |-> g, res |-> IteratorResult(Undefined, TRUE)]
    ELSE IF g.val.kind = "undefined"
    THEN [g |-> [g EXCEPT !.pc = "done"], res |-> IteratorResult(Undefined, TRUE)]
    ELSE IF isArrayLike(g.val)
    THEN IF g.i < Len(g.val.arr)
         THEN [g |-> [g EXCEPT !.i = g.i + 1, !.pc = "yielded"],
               res |-> IteratorResult(g.val.arr[g.i + 1], FALSE)]
         ELSE [g |-> [g EXCEPT !.pc = "done"], res |-> IteratorResult(Undefined, TRUE)]
    ELSE [g |-> [g EXCEPT !.pc = "done"], res |-> IteratorResult(RefOf(g.val.id), TRUE)]

-----------------------------------------------------------------------------
(* Cursor objects                                                          *)

\* new IteratorEnumerator(iterator): iterator || makeIterable()
IteratorEnumerator(iterator) ==
    [kind |-> "IteratorEnumerator", current |-> NoResult, index |-> -1,
     iterator |-> IF iterator.kind = "undefined" THEN makeIterable(NoArg) ELSE iterator]

\* ArrayEnumerator.reset(): index -1, current null, a fresh generator over _arr
ArrayEnumeratorReset(o) ==
    [o EXCEPT !.index = -1, !.current = NoResult, !.iterator = makeIterable(ArrayArg(o.arr))]

\* new ArrayEnumerator(arr): super(), this._arr = arr || [], this.reset()
ArrayEnumerator(arr) ==
    ArrayEnumeratorReset([kind |-> "ArrayEnumerator", current |-> NoResult, index |-> -1,
           iterator |-> makeIterable(NoArg), arr |-> arr])

\* A reset() that rewinds the key and the current element but keeps the
\* generator it was pulling from: what the properties of reset() must tell
\* apart from the real one
resetKeepingIterator(w, e) ==
    IF w.heap[e].kind = "ArrayEnumerator"
    THEN [w |-> Put(w, e, [w.heap[e] EXCEPT !.index = -1, !.current = NoResult]),
          threw |-> FALSE]
    ELSE [w |-> w, threw |-> TRUE]

\* reset() as called on a cursor: IteratorEnumerator.reset() only throws
reset(w, e) ==
    IF w.heap[e].kind = "ArrayEnumerator"
    THEN [w |-> Put(w, e, ArrayEnumeratorReset(w.heap[e])), threw |-> FALSE]
    ELSE [w |-> w, threw |-> TRUE]

canReset(o) == o.kind = "ArrayEnumerator"
current(o) == IF o.current.set THEN o.current.value ELSE Undefined
isValid(o) == ~o.current.set \/ ~o.current.done
key(o) == o.index

IsCursor(o) == o.kind \in {"IteratorEnumerator", "ArrayEnumerator"}
IsSequence(o) == o.kind \in {"Enumerable", "ArrayEnumerable"}

-----------------------------------------------------------------------------
(* ItemContext and the user functions                                      *)

\* new ItemContext(e, index, previousValue)
ItemContext(e, index, previousValue) ==
    [enumerator |-> e, index |-> index, previousValue |-> previousValue,
     cancel |-> FALSE, nextValue |-> Undefined, value |-> Undefined]

isFirst(ctx) == 0 = ctx.index
item(w, ctx) == current(w.heap[ctx.enumerator])

\* A user function (predicate, selector, action, aggregator).  It accepts the
\* items of `accept`, projects x to x + add, sets ctx.cancel at index cancelAt
\* and stores the current item into ctx.nextValue / ctx.value at the indexes
\* nvAt / vAt.  NoCallback is an argument that was not passed.
NoCallback ==
    [given |-> FALSE, user |-> FALSE, accept |-> {}, add |-> 0, cancelAt |-> -1,
     nvAt |-> {}, vAt |-> {}, countdown |-> -1, below |-> -1]
Callback(accept, add, cancelAt, nvAt, vAt) ==
    [given |-> TRUE, user |-> TRUE, accept |-> accept, add |-> add, cancelAt |-> cancelAt,
     nvAt |-> nvAt, vAt |-> vAt, countdown |-> -1, below |-> -1]

\* One invocation of a user function with (item, ctx): the call is logged with
\* the context it received, then the function writes its fields.
Invoke(w, cb, ctx, stage) ==
    LET x == item(w, ctx)
        entry == [stage |-> stage, index |-> ctx.index, isFirst |-> isFirst(ctx),
                  previousValue |-> ctx.previousValue, value |-> ctx.value, item |-> x]
    IN [w |-> [w EXCEPT !.log = Append(@, entry)],
        ctx |-> [ctx EXCEPT !.cancel = (ctx.index = cb.cancelAt),
                            !.nextValue = IF ctx.index \in cb.nvAt THEN x ELSE @,
                            !.value = IF ctx.index \in cb.vAt THEN x ELSE @],
        matches |-> x \in cb.accept,
        selected |-> x + cb.add]

\* toPredicateSafe(val)(item, ctx): `() => true` when no predicate was passed.
\* The closure of elementAt, `0 === index--`, is called once per item, so it
\* matches exactly the call whose ctx.index is the index it started from.
\* The closure of take, `ctx.index < cnt`, carries cnt in `below`.
toPredicateSafe(w, val, ctx, stage) ==
    IF val.given /\ ~val.user
    THEN [w |-> w, ctx |-> ctx,
          ret |-> IF val.below >= 0 THEN ctx.index < val.below
                                    ELSE ctx.index = val.countdown]
    ELSE IF val.given
    THEN LET c == Invoke(w, val, ctx, stage) IN [w |-> c.w, ctx |-> c.ctx, ret |-> c.matches]
    ELSE [w |-> w, ctx |-> ctx, ret |-> TRUE]

\* toSelectorSafe(val)(item, ctx): `x => x` when no selector was passed
toSelectorSafe(w, val, ctx, stage) ==
    IF val.given
    THEN LET c == Invoke(w, val, ctx, stage) IN [w |-> c.w, ctx |-> c.ctx, ret |-> c.selected]
    ELSE [w |-> w, ctx |-> ctx, ret |-> item(w, ctx)]

-----------------------------------------------------------------------------
(* Generator frames of the lazy stages                                     *)

NoContext == ItemContext(0, -1, Undefined)

whereInner(this, predicate) ==
    [kind |-> "whereInner", this |-> this, predicate |-> predicate, pc |-> "start",
     e |-> 0, index |-> -1, prevVal |-> Undefined, value |-> Undefined, ctx |-> NoContext]

selectInner(this, selector) ==
    [kind |-> "selectInner", this |-> this, selector |-> selector, pc |-> "start",
     e |-> 0, index |-> -1, prevVal |-> Undefined, value |-> Undefined, ctx |-> NoContext]

concatInner(this, other) ==
    [kind |-> "concatInner", this |-> this, other |-> other, pc |-> "start", e |-> 0]

takeWhileInner(this, predicate) ==
    [kind |-> "takeWhileInner", this |-> this, predicate |-> predicate, pc |-> "start",
     e |-> 0, alwaysMatches |-> FALSE, index |-> -1, prevVal |-> Undefined,
     value |-> Undefined, ctx |-> NoContext]

skipWhileInner(this, predicate) ==
    [kind |-> "skipWhileInner", this |-> this, predicate |-> predicate, pc |-> "start",
     e |-> 0, skipItems |-> TRUE, index |-> -1, prevVal |-> Undefined,
     value |-> Undefined, ctx |-> NoContext]

skipLastInner(this) ==
    [kind |-> "skipLastInner", this |-> this, pc |-> "start", e |-> 0,
     isFirst |-> TRUE, item |-> Undefined]

defaultIfEmptyInner(this, args) ==
    [kind |-> "defaultIfEmptyInner", this |-> this, args |-> args, pc |-> "start",
     e |-> 0, i |-> 0]

\* distinctInner as a generator frame: temp is the list of items yielded so far
distinctInner_(this) ==
    [kind |-> "distinctInner", this |-> this, pc |-> "start", e |-> 0,
     temp |-> << >>, index |-> -1]

selectManyInner(this, selector) ==
    [kind |-> "selectManyInner", this |-> this, selector |-> selector, pc |-> "start",
     e |-> 0, index |-> -1, prevVal |-> Undefined, value |-> Undefined, ctx |-> NoContext,
     iterator |-> makeIterable(NoArg)]

\* zipInner as a generator frame: `other` is the cursor zip() made over its
\* argument
zipInner(this, other, zipper) ==
    [kind |-> "zipInner", this |-> this, other |-> other, zipper |-> zipper,
     pc |-> "start", e |-> 0, index |-> -1, prevVal |-> Undefined, value |-> Undefined,
     ctx |-> NoContext]

GeneratorDone == IteratorResult(Undefined, TRUE)
SetFrame(w, owner, g) == [w EXCEPT !.heap[owner].iterator = g]

-----------------------------------------------------------------------------
(* Pulling: moveNext() and the next() of every kind of iterator            *)

RECURSIVE moveNext(_, _)
RECURSIVE IteratorNext(_, _)
RECURSIVE whereInnerLoop(_, _, _)
RECURSIVE selectInnerLoop(_, _, _)
RECURSIVE takeWhileInnerLoop(_, _, _)
RECURSIVE skipWhileInnerLoop(_, _, _)
RECURSIVE skipLastInnerLoop(_, _, _)
RECURSIVE distinctInnerLoop_(_, _, _)
RECURSIVE selectManyInnerLoop(_, _, _, _)

\* A [Symbol.iterator] that hands out one cursor per array-backed sequence
\* again and again: what the properties of getEnumerator() must tell apart
\* from the real one
SymbolIteratorShared(w, s) ==
    LET made == {id \in DOMAIN w.heap : w.heap[id].kind = "ArrayEnumerator"} IN
    IF w.heap[s].kind = "ArrayEnumerable" /\ made = {}
    THEN [w |-> Alloc(w, ArrayEnumerator(w.heap[s].arr)), e |-> Len(w.heap) + 1]
    ELSE IF w.heap[s].kind = "ArrayEnumerable"
    THEN [w |-> w, e |-> CHOOSE id \in made : TRUE]
    ELSE [w |-> w, e |-> w.heap[s].enumerator]

\* A [Symbol.iterator] that rewinds the cursor of a sequence made over a
\* plain iterator, and the iterator with it: what the properties of a
\* one-shot sequence must tell apart from the real one
SymbolIteratorRewinding(w, s) ==
    IF w.heap[s].kind = "ArrayEnumerable"
    THEN [w |-> Alloc(w, ArrayEnumerator(w.heap[s].arr)), e |-> Len(w.heap) + 1]
    ELSE LET e == w.heap[s].enumerator
             it == w.heap[e].iterator
         IN IF it.kind = "object" /\ w.heap[it.id].kind = "Iterator"
            THEN [w |-> [w EXCEPT !.heap[e].current = NoResult, !.heap[e].index = -1,
                                  !.heap[it.id].pos = 0],
                  e |-> e]
            ELSE [w |-> w, e |-> e]

\* ArrayEnumerable[Symbol.iterator]: a new ArrayEnumerator over _arr;
\* Enumerable[Symbol.iterator]: the one cursor made at construction.
SymbolIterator(w, s) ==
    IF w.heap[s].kind = "ArrayEnumerable"
    THEN [w |-> Alloc(w, ArrayEnumerator(w.heap[s].arr)), e |-> Len(w.heap) + 1]
    ELSE [w |-> w, e |-> w.heap[s].enumerator]

\* Enumerable.getEnumerator(): this[Symbol.iterator]()
getEnumerator(w, s) == SymbolIterator(w, s)

\* A moveNext() without the test for a finished iterator: what the
\* properties of an exhausted cursor must tell apart from the real one
moveNextUnguarded(w, e) ==
    Bind(IteratorNext([w EXCEPT !.heap[e].index = w.heap[e].index + 1], e), LAMBDA r :
         [w |-> [r.w EXCEPT !.heap[e].current = r.res], ret |-> ~r.res.done])

\* IteratorEnumerator.moveNext(), inherited unchanged by ArrayEnumerator
moveNext(w, e) ==
    LET o == w.heap[e] IN
    IF o.current.set /\ o.current.done
    THEN [w |-> w, ret |-> FALSE]
    ELSE Bind(IteratorNext([w EXCEPT !.heap[e].index = o.index + 1], e), LAMBDA r :
              [w |-> [r.w EXCEPT !.heap[e].current = r.res], ret |-> ~r.res.done])

\* IteratorEnumerator.next(): this.moveNext(); return this._current
next(w, e) ==
    Bind(moveNext(w, e), LAMBDA mv : [w |-> mv.w, res |-> mv.w.heap[e].current])

\* next() of a plain one-shot iterator supplied by the caller
PlainNext(w, id) ==
    LET it == w.heap[id] IN
    IF it.pos < Len(it.items)
    THEN [w |-> [w EXCEPT !.heap[id].pos = it.pos + 1],
          res |-> IteratorResult(it.items[it.pos + 1], FALSE)]
    ELSE [w |-> w, res |-> IteratorResult(Undefined, TRUE)]

\* A where loop that still yields a matching item whose predicate call
\* cancelled: what the properties of where must tell apart from the real loop
whereInnerLoopYieldingLast(w, owner, g) ==
    Bind(moveNext(w, g.e), LAMBDA mv :
    IF ~mv.ret
    THEN [w |-> SetFrame(mv.w, owner, [g EXCEPT !.pc = "done"]), res |-> GeneratorDone]
    ELSE LET ctx0 == [ItemContext(g.e, g.index + 1, g.prevVal) EXCEPT !.value = g.value]
             c == toPredicateSafe(mv.w, g.predicate, ctx0, owner)
             g1 == [g EXCEPT !.index = g.index + 1, !.ctx = c.ctx]
         IN IF c.ret
            THEN [w |-> SetFrame(c.w, owner,
                                 [g1 EXCEPT !.pc = IF c.ctx.cancel THEN "done" ELSE "yielded"]),
                  res |-> IteratorResult(item(c.w, c.ctx), FALSE)]
            ELSE IF c.ctx.cancel
            THEN [w |-> SetFrame(c.w, owner, [g1 EXCEPT !.pc = "done"]), res |-> GeneratorDone]
            ELSE whereInnerLoop(c.w, owner, [g1 EXCEPT !.prevVal = c.ctx.nextValue,
                                                       !.value = c.ctx.value]))

\* whereInner, the body from `while (e.moveNext())` on
whereInnerLoop(w, owner, g) ==
    Bind(moveNext(w, g.e), LAMBDA mv :
    IF ~mv.ret
    THEN [w |-> SetFrame(mv.w, owner, [g EXCEPT !.pc = "done"]), res |-> GeneratorDone]
    ELSE LET ctx0 == [ItemContext(g.e, g.index + 1, g.prevVal) EXCEPT !.value = g.value]
             c == toPredicateSafe(mv.w, g.predicate, ctx0, owner)
             g1 == [g EXCEPT !.index = g.index + 1, !.ctx = c.ctx]
         IN IF c.ctx.cancel
            THEN [w |-> SetFrame(c.w, owner, [g1 EXCEPT !.pc = "done"]), res |-> GeneratorDone]
            ELSE IF c.ret
            THEN [w |-> SetFrame(c.w, owner, [g1 EXCEPT !.pc = "yielded"]),
                  res |-> IteratorResult(item(c.w, c.ctx), FALSE)]
            ELSE whereInnerLoop(c.w, owner, [g1 EXCEPT !.prevVal = c.ctx.nextValue,
                                                       !.value = c.ctx.value]))

\* One next() of a whereInner frame: start the body, or resume after the yield
whereInnerNext(w, owner) ==
    LET g == w.heap[owner].iterator IN
    IF g.pc = "done" THEN [w |-> w, res |-> GeneratorDone]
    ELSE IF g.pc = "start"
    THEN LET ge == getEnumerator(w, g.this)
         IN whereInnerLoop(ge.w, owner, [g EXCEPT !.e = ge.e])
    ELSE whereInnerLoop(w, owner, [g EXCEPT !.prevVal = g.ctx.nextValue,
                                            !.value = g.ctx.value])

\* selectInner, the body from `while (e.moveNext())` on
selectInnerLoop(w, owner, g) ==
    Bind(moveNext(w, g.e), LAMBDA mv :
    IF ~mv.ret
    THEN [w |-> SetFrame(mv.w, owner, [g EXCEPT !.pc = "done"]), res |-> GeneratorDone]
    ELSE LET ctx0 == [ItemContext(g.e, g.index + 1, g.prevVal) EXCEPT !.value = g.value]
             c == toSelectorSafe(mv.w, g.selector, ctx0, owner)
             g1 == [g EXCEPT !.index = g.index + 1, !.ctx = c.ctx]
         IN IF c.ctx.cancel
            THEN [w |-> SetFrame(c.w, owner, [g1 EXCEPT !.pc = "done"]), res |-> GeneratorDone]
            ELSE [w |-> SetFrame(c.w, owner, [g1 EXCEPT !.pc = "yielded"]),
                  res |-> IteratorResult(c.ret, FALSE)])

\* One next() of a selectInner frame
selectInnerNext(w, owner) ==
    LET g == w.heap[owner].iterator IN
    IF g.pc = "done" THEN [w |-> w, res |-> GeneratorDone]
    ELSE IF g.pc = "start"
    THEN LET ge == getEnumerator(w, g.this)
         IN selectInnerLoop(ge.w, owner, [g EXCEPT !.e = ge.e])
    ELSE selectInnerLoop(w, owner, [g EXCEPT !.prevVal = g.ctx.nextValue,
                                             !.value = g.ctx.value])

\* takeWhileInner, the body from `while (e.moveNext())` on: the item is
\* pulled before the predicate sees it, `doesMatch` is the predicate's answer
\* or alwaysMatches as it was before this item, and only a falsy doesMatch
\* leaves the loop.  The generator ends with `return this;`: its last
\* result is {value: the sequence takeWhile was called on, done: true}
takeWhileInnerLoop(w, owner, g) ==
    Bind(moveNext(w, g.e), LAMBDA mv :
    IF ~mv.ret
    THEN [w |-> SetFrame(mv.w, owner, [g EXCEPT !.pc = "done"]),
          res |-> IteratorResult(RefOf(g.this), TRUE)]
    ELSE LET ctx0 == [ItemContext(g.e, g.index + 1, g.prevVal) EXCEPT !.value = g.value]
             c == toPredicateSafe(mv.w, g.predicate, ctx0, owner)
             doesMatch == c.ret \/ g.alwaysMatches
             g1 == [g EXCEPT !.index = g.index + 1, !.ctx = c.ctx,
                             !.alwaysMatches = g.alwaysMatches \/ c.ctx.cancel]
         IN IF ~doesMatch
            THEN [w |-> SetFrame(c.w, owner, [g1 EXCEPT !.pc = "done"]),
                  res |-> IteratorResult(RefOf(g.this), TRUE)]
            ELSE [w |-> SetFrame(c.w, owner, [g1 EXCEPT !.pc = "yielded"]),
                  res |-> IteratorResult(item(c.w, c.ctx), FALSE)])

\* One next() of a takeWhileInner frame
takeWhileInnerNext(w, owner) ==
    LET g == w.heap[owner].iterator IN
    IF g.pc = "done" THEN [w |-> w, res |-> GeneratorDone]
    ELSE IF g.pc = "start"
    THEN LET ge == getEnumerator(w, g.this)
         IN takeWhileInnerLoop(ge.w, owner, [g EXCEPT !.e = ge.e])
    ELSE takeWhileInnerLoop(w, owner, [g EXCEPT !.prevVal = g.ctx.nextValue,
                                                !.value = g.ctx.value])

\* concatInner, the second loop: the items of `other`
concatInnerOther(w, owner, g) ==
    LET r == makeIterableNext(g.other) IN
    IF r.res.done
    THEN [w |-> SetFrame(w, owner, [g EXCEPT !.other = r.g, !.pc = "done"]),
          res |-> GeneratorDone]
    ELSE [w |-> SetFrame(w, owner, [g EXCEPT !.other = r.g, !.pc = "other"]),
          res |-> IteratorResult(r.res.value, FALSE)]

\* concatInner, the first loop: the items of this sequence
concatInnerThis(w, owner, g) ==
    Bind(moveNext(w, g.e), LAMBDA mv :
    IF mv.ret
    THEN [w |-> SetFrame(mv.w, owner, [g EXCEPT !.pc = "this"]),
          res |-> IteratorResult(current(mv.w.heap[g.e]), FALSE)]
    ELSE concatInnerOther(mv.w, owner, g))

\* One next() of a concatInner frame
concatInnerNext(w, owner) ==
    LET g == w.heap[owner].iterator IN
    IF g.pc = "done" THEN [w |-> w, res |-> GeneratorDone]
    ELSE IF g.pc = "start"
    THEN LET ge == getEnumerator(w, g.this)
         IN concatInnerThis(ge.w, owner, [g EXCEPT !.e = ge.e])
    ELSE IF g.pc = "this" THEN concatInnerThis(w, owner, g)
    ELSE concatInnerOther(w, owner, g)

\* skipWhileInner, the body from `while (e.moveNext())` on: the predicate is
\* asked only while skipItems is true, a cancel ends the skipping, and the
\* loop variables are carried on whether or not the item was yielded
skipWhileInnerLoop(w, owner, g) ==
    Bind(moveNext(w, g.e), LAMBDA mv :
    IF ~mv.ret
    THEN [w |-> SetFrame(mv.w, owner, [g EXCEPT !.pc = "done"]), res |-> GeneratorDone]
    ELSE LET ctx0 == [ItemContext(g.e, g.index + 1, g.prevVal) EXCEPT !.value = g.value]
             c == IF g.skipItems THEN toPredicateSafe(mv.w, g.predicate, ctx0, owner)
                                 ELSE [w |-> mv.w, ctx |-> ctx0, ret |-> FALSE]
             skipItems == c.ret /\ ~c.ctx.cancel
             g1 == [g EXCEPT !.index = g.index + 1, !.ctx = c.ctx, !.skipItems = skipItems]
         IN IF ~skipItems
            THEN [w |-> SetFrame(c.w, owner, [g1 EXCEPT !.pc = "yielded"]),
                  res |-> IteratorResult(item(c.w, c.ctx), FALSE)]
            ELSE skipWhileInnerLoop(c.w, owner, [g1 EXCEPT !.prevVal = c.ctx.nextValue,
                                                           !.value = c.ctx.value]))

\* One next() of a skipWhileInner frame
skipWhileInnerNext(w, owner) ==
    LET g == w.heap[owner].iterator IN
    IF g.pc = "done" THEN [w |-> w, res |-> GeneratorDone]
    ELSE IF g.pc = "start"
    THEN LET ge == getEnumerator(w, g.this)
         IN skipWhileInnerLoop(ge.w, owner, [g EXCEPT !.e = ge.e])
    ELSE skipWhileInnerLoop(w, owner, [g EXCEPT !.prevVal = g.ctx.nextValue,
                                                !.value = g.ctx.value])

\* skipLastInner, the body of the do-while from `hasRemainingItems =
\* e.moveNext()` on: the item read in the turn before is yielded once it is
\* known not to be the last
skipLastInnerLoop(w, owner, g) ==
    Bind(moveNext(w, g.e), LAMBDA mv :
    IF ~mv.ret
    THEN [w |-> SetFrame(mv.w, owner, [g EXCEPT !.pc = "done"]), res |-> GeneratorDone]
    ELSE IF g.isFirst
    THEN skipLastInnerLoop(mv.w, owner,
                           [g EXCEPT !.isFirst = FALSE, !.item = current(mv.w.heap[g.e])])
    ELSE [w |-> SetFrame(mv.w, owner, [g EXCEPT !.pc = "yielded"]),
          res |-> IteratorResult(g.item, FALSE)])

\* One next() of a skipLastInner frame; after the yield comes `item = e.current`
skipLastInnerNext(w, owner) ==
    LET g == w.heap[owner].iterator IN
    IF g.pc = "done" THEN [w |-> w, res |-> GeneratorDone]
    ELSE IF g.pc = "start"
    THEN LET ge == getEnumerator(w, g.this)
         IN skipLastInnerLoop(ge.w, owner, [g EXCEPT !.e = ge.e])
    ELSE skipLastInnerLoop(w, owner, [g EXCEPT !.item = current(w.heap[g.e])])

\* defaultIfEmptyInner, the else branch: the arguments, one per next()
defaultIfEmptyInnerArgs(w, owner, g) ==
    IF g.i < Len(g.args)
    THEN [w |-> SetFrame(w, owner, [g EXCEPT !.i = g.i + 1, !.pc = "args"]),
          res |-> IteratorResult(g.args[g.i + 1], FALSE)]
    ELSE [w |-> SetFrame(w, owner, [g EXCEPT !.pc = "done"]), res |-> GeneratorDone]

\* One next() of a defaultIfEmptyInner frame: the first moveNext() decides
\* between the items of the sequence and the arguments
defaultIfEmptyInnerNext(w, owner) ==
    LET g == w.heap[owner].iterator IN
    IF g.pc = "done" THEN [w |-> w, res |-> GeneratorDone]
    ELSE IF g.pc = "args" THEN defaultIfEmptyInnerArgs(w, owner, g)
    ELSE LET ge == IF g.pc = "start" THEN getEnumerator(w, g.this) ELSE [w |-> w, e |-> g.e]
         IN Bind(moveNext(ge.w, ge.e), LAMBDA mv :
            IF mv.ret
            THEN [w |-> SetFrame(mv.w, owner, [g EXCEPT !.e = ge.e, !.pc = "items"]),
                  res |-> IteratorResult(current(mv.w.heap[ge.e]), FALSE)]
            ELSE IF g.pc = "start"
            THEN defaultIfEmptyInnerArgs(mv.w, owner, [g EXCEPT !.e = ge.e])
            ELSE [w |-> SetFrame(mv.w, owner, [g EXCEPT !.pc = "done"]),
                  res |-> GeneratorDone])

\* distinctInner, the body from `while (e.moveNext())` on, with the default
\* comparer (x == y, which on numbers is equality): an item that is not in
\* temp is pushed and yielded
distinctInnerLoop_(w, owner, g) ==
    Bind(moveNext(w, g.e), LAMBDA mv :
    IF ~mv.ret
    THEN [w |-> SetFrame(mv.w, owner, [g EXCEPT !.pc = "done"]), res |-> GeneratorDone]
    ELSE LET x == current(mv.w.heap[g.e])
             alreadyExists == \E i \in 1 .. Len(g.temp) : x = g.temp[i]
         IN IF alreadyExists
            THEN distinctInnerLoop_(mv.w, owner, [g EXCEPT !.index = g.index + 1])
            ELSE [w |-> SetFrame(mv.w, owner, [g EXCEPT !.index = g.index + 1,
                                                        !.temp = Append(g.temp, x),
                                                        !.pc = "yielded"]),
                  res |-> IteratorResult(x, FALSE)])

\* One next() of a distinctInner frame
distinctInnerNext(w, owner) ==
    LET g == w.heap[owner].iterator IN
    IF g.pc = "done" THEN [w |-> w, res |-> GeneratorDone]
    ELSE IF g.pc = "start"
    THEN LET ge == getEnumerator(w, g.this)
         IN distinctInnerLoop_(ge.w, owner, [g EXCEPT !.e = ge.e])
    ELSE distinctInnerLoop_(w, owner, g)

\* toManySelectorSafe(val)(item, ctx): `x => [x]` when no selector was
\* passed; the selector a caller passes here is x => [x, x + add]
toManySelectorSafe(w, val, ctx, stage) ==
    IF val.given
    THEN LET c == Invoke(w, val, ctx, stage)
         IN [w |-> c.w, ctx |-> c.ctx, ret |-> ArrayArg(<<item(w, ctx), c.selected>>)]
    ELSE [w |-> w, ctx |-> ctx, ret |-> ArrayArg(<<item(w, ctx)>>)]

\* selectManyInner.  With `inner` the do-while over the iterator of what the
\* selector returned: one next() of it, and the outer loop goes on when it is
\* done.  Otherwise the body from `while (e.moveNext())` on.
selectManyInnerLoop(w, owner, g, inner) ==
    IF inner
    THEN Bind(makeIterableNext(g.iterator), LAMBDA r :
         IF r.res.done
         THEN selectManyInnerLoop(w, owner, [g EXCEPT !.iterator = r.g,
                                                      !.prevVal = g.ctx.nextValue,
                                                      !.value = g.ctx.value], FALSE)
         ELSE [w |-> SetFrame(w, owner, [g EXCEPT !.iterator = r.g, !.pc = "yielded"]),
               res |-> IteratorResult(r.res.value, FALSE)])
    ELSE Bind(moveNext(w, g.e), LAMBDA mv :
         IF ~mv.ret
         THEN [w |-> SetFrame(mv.w, owner, [g EXCEPT !.pc = "done"]), res |-> GeneratorDone]
         ELSE Bind(toManySelectorSafe(mv.w, g.selector,
                                      [ItemContext(g.e, g.index + 1, g.prevVal)
                                           EXCEPT !.value = g.value], owner), LAMBDA c :
              IF c.ctx.cancel
              THEN [w |-> SetFrame(c.w, owner,
                                   [g EXCEPT !.index = g.index + 1, !.ctx = c.ctx,
                                             !.iterator = makeIterable(c.ret),
                                             !.pc = "done"]),
                    res |-> GeneratorDone]
              ELSE selectManyInnerLoop(c.w, owner,
                                       [g EXCEPT !.index = g.index + 1, !.ctx = c.ctx,
                                                 !.iterator = makeIterable(c.ret)],
                                       TRUE)))

\* One next() of a selectManyInner frame
selectManyInnerNext(w, owner) ==
    LET g == w.heap[owner].iterator IN
    IF g.pc = "done" THEN [w |-> w, res |-> GeneratorDone]
    ELSE IF g.pc = "start"
    THEN LET ge == getEnumerator(w, g.this)
         IN selectManyInnerLoop(ge.w, owner, [g EXCEPT !.e = ge.e], FALSE)
    ELSE selectManyInnerLoop(w, owner, g, TRUE)

\* toZipperSafe(val)(item1, item2, ctx1, ctx2): item1 + item2 when no zipper
\* was passed; the zipper a caller passes here is (item1, item2, ctx1) =>
\* item1 + add + item2, which writes ctx1 as the other callbacks do
toZipperSafe_(w, val, ctx1, item2, stage) ==
    IF val.given
    THEN LET c == Invoke(w, val, ctx1, stage)
         IN [w |-> c.w, ctx |-> c.ctx, ret |-> c.selected + item2]
    ELSE [w |-> w, ctx |-> ctx1, ret |-> item(w, ctx1) + item2]

\* One next() of a zipInner frame, from `while (e.moveNext() &&
\* other.moveNext())` on: `other` is not advanced when this sequence has run
\* out.  ctx2 is not written by the zippers tried here, so prevVal2 and
\* value2 stay undefined.
zipInnerNext(w, owner) ==
    LET g0 == w.heap[owner].iterator IN
    IF g0.pc = "done" THEN [w |-> w, res |-> GeneratorDone]
    ELSE Bind(IF g0.pc = "start" THEN getEnumerator(w, g0.this)
                                 ELSE [w |-> w, e |-> g0.e], LAMBDA ge :
         Bind(IF g0.pc = "start" THEN [g0 EXCEPT !.e = ge.e]
              ELSE [g0 EXCEPT !.prevVal = g0.ctx.nextValue, !.value = g0.ctx.value],
              LAMBDA g :
         Bind(moveNext(ge.w, g.e), LAMBDA mv1 :
         IF ~mv1.ret
         THEN [w |-> SetFrame(mv1.w, owner, [g EXCEPT !.pc = "done"]), res |-> GeneratorDone]
         ELSE Bind(moveNext(mv1.w, g.other), LAMBDA mv2 :
              IF ~mv2.ret
              THEN [w |-> SetFrame(mv2.w, owner, [g EXCEPT !.pc = "done"]),
                    res |-> GeneratorDone]
              ELSE Bind(toZipperSafe_(mv2.w, g.zipper,
                                      [ItemContext(g.e, g.index + 1, g.prevVal)
                                           EXCEPT !.value = g.value],
                                      current(mv2.w.heap[g.other]), owner), LAMBDA c :
                   [w |-> SetFrame(c.w, owner,
                                   [g EXCEPT !.index = g.index + 1, !.ctx = c.ctx,
                                             !.pc = IF c.ctx.cancel THEN "done"
                                                                    ELSE "yielded"]),
                    res |-> IF c.ctx.cancel THEN GeneratorDone
                            ELSE IteratorResult(c.ret, FALSE)])))))

\* this._iterator.next() of the cursor `owner`
IteratorNext(w, owner) ==
    LET it == w.heap[owner].iterator IN
    CASE it.kind = "makeIterable" ->
            LET r == makeIterableNext(it) IN [w |-> SetFrame(w, owner, r.g), res |-> r.res]
      [] it.kind = "whereInner" -> whereInnerNext(w, owner)
      [] it.kind = "selectInner" -> selectInnerNext(w, owner)
      [] it.kind = "concatInner" -> concatInnerNext(w, owner)
      [] it.kind = "takeWhileInner" -> takeWhileInnerNext(w, owner)
      [] it.kind = "skipWhileInner" -> skipWhileInnerNext(w, owner)
      [] it.kind = "skipLastInner" -> skipLastInnerNext(w, owner)
      [] it.kind = "defaultIfEmptyInner" -> defaultIfEmptyInnerNext(w, owner)
      [] it.kind = "distinctInner" -> distinctInnerNext(w, owner)
      [] it.kind = "selectManyInner" -> selectManyInnerNext(w, owner)
      [] it.kind = "zipInner" -> zipInnerNext(w, owner)
      [] it.kind = "object" /\ w.heap[it.id].kind = "Iterator" -> PlainNext(w, it.id)
      [] it.kind = "object" /\ IsCursor(w.heap[it.id]) -> next(w, it.id)

-----------------------------------------------------------------------------
(* Sequence objects, from() and the lazy operators                         *)

ArrayEnumerable(arr) == [kind |-> "ArrayEnumerable", arr |-> arr]

\* new Enumerable(iterator): one IteratorEnumerator, made here and kept
Enumerable(w, iterator) ==
    LET w1 == Alloc(w, IteratorEnumerator(iterator))
    IN [w |-> Alloc(w1, [kind |-> "Enumerable", enumerator |-> Len(w1.heap)]),
        s |-> Len(w1.heap) + 1]

\* i[Symbol.iterator]() where the value has one: a generator and a built-in
\* iterator return themselves, an iterable a new iterator, a sequence its cursor
IterableIterator(w, i) ==
    IF i.kind # "object" THEN [w |-> w, i |-> i]
    ELSE IF w.heap[i.id].kind = "Iterable"
    THEN [w |-> Alloc(w, [kind |-> "Iterator", items |-> w.heap[i.id].items, pos |-> 0]),
          i |-> ObjectArg(Len(w.heap) + 1)]
    ELSE IF IsSequence(w.heap[i.id])
    THEN LET ge == SymbolIterator(w, i.id) IN [w |-> ge.w, i |-> ObjectArg(ge.e)]
    ELSE [w |-> w, i |-> i]

from(w, items) ==
    LET i == IF items.kind = "undefined" THEN ArrayArg(<< >>) ELSE items IN
    IF isArrayLike(i)
    THEN [w |-> Alloc(w, ArrayEnumerable(i.arr)), s |-> Len(w.heap) + 1]
    ELSE LET it == IterableIterator(w, i) IN Enumerable(it.w, it.i)

\* A where that pulls the first item as it is called: what the properties of
\* a lazy call must tell apart from the real one
whereEagerly(w, s, predicate) ==
    Bind(from(w, whereInner(s, predicate)), LAMBDA r :
         [w |-> moveNext(r.w, r.w.heap[r.s].enumerator).w, s |-> r.s])

where(w, s, predicate) == from(w, whereInner(s, predicate))
select(w, s, selector) == from(w, selectInner(s, selector))

\* takeWhile(predicate), and take(cnt) = takeWhile((item, ctx) => ctx.index < cnt)
takeWhile(w, s, predicate) == from(w, takeWhileInner(s, predicate))
TakePredicate(cnt) == [NoCallback EXCEPT !.given = TRUE, !.below = cnt]
take(w, s, cnt) == takeWhile(w, s, TakePredicate(cnt))

\* skipWhile(predicate), skip(cnt) = skipWhile((item, ctx) => ctx.index < cnt)
\* (the closure of take), and skipLast()
skipWhile(w, s, predicate) == from(w, skipWhileInner(s, predicate))
skip(w, s, cnt) == skipWhile(w, s, TakePredicate(cnt))
skipLast(w, s) == from(w, skipLastInner(s))

\* defaultIfEmpty(...args), and distinct() with no comparer
defaultIfEmpty(w, s, args) == from(w, defaultIfEmptyInner(s, args))
distinct_(w, s) == from(w, distinctInner_(s))
selectMany(w, s, selector) == from(w, selectManyInner(s, selector))

\* zip(other, zipper): `from(makeIterable(other)).getEnumerator()` makes a
\* cursor over the argument at once (the sequence object around it is not
\* kept), and the generator gets that cursor
zip_(w, s, other, zipper) ==
    LET w1 == Alloc(w, IteratorEnumerator(makeIterable(other)))
    IN from(w1, zipInner(s, Len(w1.heap), zipper))
concat(w, s, other) == LET i == makeIterable(other) IN from(w, concatInner(s, i))

-----------------------------------------------------------------------------
(* Terminal operators.  Each returns the world it leaves, its return value *)
(* (ret or arr), whether it threw, and the cursor e it drove.              *)

RECURSIVE countLoop(_, _, _, _)
RECURSIVE toArrayLoop(_, _, _, _)
RECURSIVE eachLoop(_, _, _, _)
RECURSIVE firstLoop(_, _, _, _)
RECURSIVE aggregateLoop(_, _, _, _)
RECURSIVE lastLoop(_, _, _, _)
RECURSIVE singleLoop(_, _, _, _)
RECURSIVE allLoop(_, _, _, _)
RECURSIVE anyLoop(_, _, _, _)

\* The loop variables every driving loop keeps between items
LoopStart == [index |-> -1, prevVal |-> Undefined, value |-> Undefined]
WithCnt(st, cnt) == [index |-> st.index, prevVal |-> st.prevVal, value |-> st.value,
                     cnt |-> cnt]
WithArr(st, arr) == [index |-> st.index, prevVal |-> st.prevVal, value |-> st.value,
                     arr |-> arr]
WithResult(st, result) == [index |-> st.index, prevVal |-> st.prevVal, value |-> st.value,
                           result |-> result]
LoopContext(e, st) == [ItemContext(e, st.index + 1, st.prevVal) EXCEPT !.value = st.value]
WithFound(st, found, result) == [index |-> st.index, prevVal |-> st.prevVal,
                                 value |-> st.value, found |-> found, result |-> result]

\* A loop step that forgets the nextValue the callback wrote: what the
\* properties of the item context must tell apart from the real step
LoopNextWithoutPrev(st, ctx) == [st EXCEPT !.index = ctx.index, !.value = ctx.value]

\* prevVal = ctx.nextValue; value = ctx.value; (and the ++index of the next turn)
LoopNext(st, ctx) == [st EXCEPT !.index = ctx.index, !.prevVal = ctx.nextValue,
                                !.value = ctx.value]

\* A count loop that still counts the item whose callback cancelled: what the
\* properties of cancellation must tell apart from the real loop
countLoopCountingLast(w, e, predicate, st) ==
    Bind(moveNext(w, e), LAMBDA mv :
    IF ~mv.ret THEN [w |-> mv.w, ret |-> st.cnt, threw |-> FALSE, e |-> e]
    ELSE LET c == toPredicateSafe(mv.w, predicate, LoopContext(e, st), 0)
             cnt == IF c.ret THEN st.cnt + 1 ELSE st.cnt
         IN IF c.ctx.cancel THEN [w |-> c.w, ret |-> cnt, threw |-> FALSE, e |-> e]
            ELSE countLoop(c.w, e, predicate, [LoopNext(st, c.ctx) EXCEPT !.cnt = cnt]))

countLoop(w, e, predicate, st) ==
    Bind(moveNext(w, e), LAMBDA mv :
    IF ~mv.ret THEN [w |-> mv.w, ret |-> st.cnt, threw |-> FALSE, e |-> e]
    ELSE LET c == toPredicateSafe(mv.w, predicate, LoopContext(e, st), 0) IN
         IF c.ctx.cancel THEN [w |-> c.w, ret |-> st.cnt, threw |-> FALSE, e |-> e]
         ELSE countLoop(c.w, e, predicate,
                        [LoopNext(st, c.ctx) EXCEPT !.cnt = IF c.ret THEN @ + 1 ELSE @]))

\* A count() that starts from one instead of zero: what the properties of
\* count() must tell apart from the real one
countFromOne(w, s, predicate) ==
    LET ge == getEnumerator(w, s) IN countLoop(ge.w, ge.e, predicate, WithCnt(LoopStart, 1))

count(w, s, predicate) ==
    LET ge == getEnumerator(w, s)
    IN countLoop(ge.w, ge.e, predicate, WithCnt(LoopStart, 0))

\* toArray: ctx.cancel is tested before the key selector runs; with a key
\* selector the action evaluates `arr[k]` and stores nothing
toArrayLoop(w, e, ks, st) ==
    Bind(moveNext(w, e), LAMBDA mv :
    IF ~mv.ret THEN [w |-> mv.w, arr |-> st.arr, threw |-> FALSE, e |-> e]
    ELSE LET ctx == LoopContext(e, st) IN
         IF ctx.cancel THEN [w |-> mv.w, arr |-> st.arr, threw |-> FALSE, e |-> e]
         ELSE IF ~ks.given
         THEN toArrayLoop(mv.w, e, ks,
                          [LoopNext(st, ctx) EXCEPT !.arr = Append(@, item(mv.w, ctx))])
         ELSE LET c == Invoke(mv.w, ks, ctx, 0)
              IN toArrayLoop(c.w, e, ks, LoopNext(st, c.ctx)))

toArray(w, s, keySelector) ==
    LET ge == getEnumerator(w, s)
    IN toArrayLoop(ge.w, ge.e, keySelector, WithArr(LoopStart, << >>))

eachLoop(w, e, action, st) ==
    Bind(moveNext(w, e), LAMBDA mv :
    IF ~mv.ret THEN [w |-> mv.w, threw |-> FALSE, e |-> e]
    ELSE LET c == IF action.given THEN Invoke(mv.w, action, LoopContext(e, st), 0)
                  ELSE [w |-> mv.w, ctx |-> LoopContext(e, st)] IN
         IF c.ctx.cancel THEN [w |-> c.w, threw |-> FALSE, e |-> e]
         ELSE eachLoop(c.w, e, action, LoopNext(st, c.ctx)))

each(w, s, action) ==
    LET ge == getEnumerator(w, s) IN eachLoop(ge.w, ge.e, action, LoopStart)

\* first: throws "No matching element found!" unless an item matched
firstLoop(w, e, predicate, st) ==
    Bind(moveNext(w, e), LAMBDA mv :
    IF ~mv.ret THEN [w |-> mv.w, ret |-> Undefined, threw |-> TRUE, e |-> e]
    ELSE LET c == toPredicateSafe(mv.w, predicate, LoopContext(e, st), 0) IN
         IF c.ctx.cancel THEN [w |-> c.w, ret |-> Undefined, threw |-> TRUE, e |-> e]
         ELSE IF c.ret
         THEN [w |-> c.w, ret |-> item(c.w, c.ctx), threw |-> FALSE, e |-> e]
         ELSE firstLoop(c.w, e, predicate, LoopNext(st, c.ctx)))

\* A first() that looks past the head of the sequence: what the properties
\* of first() must tell apart from the real one
firstPastHead(w, s, predicate) ==
    LET ge == getEnumerator(w, s)
    IN Bind(moveNext(ge.w, ge.e), LAMBDA mv : firstLoop(mv.w, ge.e, predicate, LoopStart))

\* A first() that pulls one more item after the one it returns: what the
\* properties of a call that stops at its answer must tell apart from the
\* real one
firstPullingOn(w, s, predicate) ==
    LET ge == getEnumerator(w, s)
    IN Bind(firstLoop(ge.w, ge.e, predicate, LoopStart), LAMBDA r :
            [r EXCEPT !.w = moveNext(r.w, ge.e).w])

first(w, s, predicate) ==
    LET ge == getEnumerator(w, s) IN firstLoop(ge.w, ge.e, predicate, LoopStart)

\* firstOrDefault(predicate, defaultValue) with a function for predicate: the
\* loop of first, and the default where first throws
firstOrDefault_(w, s, predicate, defaultValue) ==
    LET ge == getEnumerator(w, s)
    IN Bind(firstLoop(ge.w, ge.e, predicate, LoopStart), LAMBDA r :
            IF r.threw THEN [r EXCEPT !.threw = FALSE, !.ret = defaultValue] ELSE r)

\* The end of last() and single(): throws "No matching element found!"
\* unless an item was found
FoundOrThrow(w, e, st) ==
    [w |-> w, ret |-> IF st.found THEN st.result ELSE Undefined, threw |-> ~st.found, e |-> e]

lastLoop(w, e, predicate, st) ==
    Bind(moveNext(w, e), LAMBDA mv :
    IF ~mv.ret THEN FoundOrThrow(mv.w, e, st)
    ELSE LET c == toPredicateSafe(mv.w, predicate, LoopContext(e, st), 0) IN
         IF c.ctx.cancel THEN FoundOrThrow(c.w, e, st)
         ELSE lastLoop(c.w, e, predicate,
                       [LoopNext(st, c.ctx) EXCEPT
                            !.found = @ \/ c.ret,
                            !.result = IF c.ret THEN item(c.w, c.ctx) ELSE @]))

last_(w, s, predicate) ==
    LET ge == getEnumerator(w, s)
    IN lastLoop(ge.w, ge.e, predicate, WithFound(LoopStart, FALSE, Undefined))

\* single: throws "Sequence contains more than one matching element!" at the
\* second match
singleLoop(w, e, predicate, st) ==
    Bind(moveNext(w, e), LAMBDA mv :
    IF ~mv.ret THEN FoundOrThrow(mv.w, e, st)
    ELSE LET c == toPredicateSafe(mv.w, predicate, LoopContext(e, st), 0) IN
         IF c.ctx.cancel THEN FoundOrThrow(c.w, e, st)
         ELSE IF c.ret /\ st.found
         THEN [w |-> c.w, ret |-> Undefined, threw |-> TRUE, e |-> e]
         ELSE singleLoop(c.w, e, predicate,
                         [LoopNext(st, c.ctx) EXCEPT
                              !.found = @ \/ c.ret,
                              !.result = IF c.ret THEN item(c.w, c.ctx) ELSE @]))

single(w, s, predicate) ==
    LET ge == getEnumerator(w, s)
    IN singleLoop(ge.w, ge.e, predicate, WithFound(LoopStart, FALSE, Undefined))

\* all: false at the first item that does not match
allLoop(w, e, predicate, st) ==
    Bind(moveNext(w, e), LAMBDA mv :
    IF ~mv.ret THEN [w |-> mv.w, ret |-> TRUE, threw |-> FALSE, e |-> e]
    ELSE LET c == toPredicateSafe(mv.w, predicate, LoopContext(e, st), 0) IN
         IF c.ctx.cancel THEN [w |-> c.w, ret |-> TRUE, threw |-> FALSE, e |-> e]
         ELSE IF ~c.ret THEN [w |-> c.w, ret |-> FALSE, threw |-> FALSE, e |-> e]
         ELSE allLoop(c.w, e, predicate, LoopNext(st, c.ctx)))

all(w, s, predicate) ==
    LET ge == getEnumerator(w, s) IN allLoop(ge.w, ge.e, predicate, LoopStart)

\* any: true at the first item that matches
anyLoop(w, e, predicate, st) ==
    Bind(moveNext(w, e), LAMBDA mv :
    IF ~mv.ret THEN [w |-> mv.w, ret |-> FALSE, threw |-> FALSE, e |-> e]
    ELSE LET c == toPredicateSafe(mv.w, predicate, LoopContext(e, st), 0) IN
         IF c.ctx.cancel THEN [w |-> c.w, ret |-> FALSE, threw |-> FALSE, e |-> e]
         ELSE IF c.ret THEN [w |-> c.w, ret |-> TRUE, threw |-> FALSE, e |-> e]
         ELSE anyLoop(c.w, e, predicate, LoopNext(st, c.ctx)))

any(w, s, predicate) ==
    LET ge == getEnumerator(w, s) IN anyLoop(ge.w, ge.e, predicate, LoopStart)

\* The predicate elementAt passes to first: (item, ctx) => 0 === index--
ElementAtPredicate(index) == [NoCallback EXCEPT !.given = TRUE, !.countdown = index]

\* elementAt: throws `Index out of range` before any pull when index < 0
elementAt(w, s, index) ==
    IF index < 0
    THEN [w |-> w, ret |-> Undefined, threw |-> TRUE, e |-> 0]
    ELSE first(w, s, ElementAtPredicate(index))

RECURSIVE aggregateLoopCallingFirst(_, _, _, _)
\* An aggregate that passes the first item to the aggregator as well
aggregateLoopCallingFirst(w, e, a, st) ==
    Bind(moveNext(w, e), LAMBDA mv :
    IF ~mv.ret THEN [w |-> mv.w, ret |-> st.result, threw |-> FALSE, e |-> e]
    ELSE LET ctx == LoopContext(e, st)
             c == IF a.given THEN Invoke(mv.w, a, ctx, 0)
                  ELSE [w |-> mv.w, ctx |-> ctx, selected |-> item(mv.w, ctx)]
         IN IF c.ctx.cancel THEN [w |-> c.w, ret |-> st.result, threw |-> FALSE, e |-> e]
            ELSE aggregateLoopCallingFirst(c.w, e, a,
                         [LoopNext(st, c.ctx) EXCEPT !.result = st.result + c.selected]))

\* aggregate: the first item seeds the result without a call; the default
\* aggregator is (result, item) => result + item
aggregateLoop(w, e, a, st) ==
    Bind(moveNext(w, e), LAMBDA mv :
    IF ~mv.ret THEN [w |-> mv.w, ret |-> st.result, threw |-> FALSE, e |-> e]
    ELSE LET ctx == LoopContext(e, st)
             c == IF 0 # ctx.index /\ a.given THEN Invoke(mv.w, a, ctx, 0)
                  ELSE [w |-> mv.w, ctx |-> ctx, selected |-> item(mv.w, ctx)]
             currentResult == IF 0 # ctx.index THEN st.result + c.selected
                              ELSE item(mv.w, ctx)
         IN IF c.ctx.cancel THEN [w |-> c.w, ret |-> st.result, threw |-> FALSE, e |-> e]
            ELSE aggregateLoop(c.w, e, a,
                               [LoopNext(st, c.ctx) EXCEPT !.result = currentResult]))

aggregate(w, s, aggregator, defaultValue) ==
    LET ge == getEnumerator(w, s)
    IN aggregateLoop(ge.w, ge.e, aggregator, WithResult(LoopStart, defaultValue))

-----------------------------------------------------------------------------
(* What a caller may pass, and what is recorded about a call               *)

RECURSIVE Untouched(_, _)
RECURSIVE UntouchedIterator(_, _)

\* The iterator `it` has never been advanced, nor has anything it pulls from
UntouchedIterator(h, it) ==
    CASE it.kind = "makeIterable" ->
            it.pc = "start" /\ (it.val.kind = "object" => Untouched(h, it.val.id))
      [] it.kind \in {"whereInner", "selectInner", "takeWhileInner", "skipWhileInner",
                      "skipLastInner", "defaultIfEmptyInner", "distinctInner",
                      "selectManyInner"} ->
            it.pc = "start" /\ Untouched(h, it.this)
      [] it.kind = "concatInner" ->
            it.pc = "start" /\ Untouched(h, it.this) /\ UntouchedIterator(h, it.other)
      [] it.kind = "zipInner" ->
            it.pc = "start" /\ Untouched(h, it.this) /\ Untouched(h, it.other)
      [] it.kind = "object" -> Untouched(h, it.id)

\* The object id is as it was when it was made (an array-backed sequence and
\* an iterable always are: every traversal of them starts anew)
Untouched(h, id) ==
    CASE h[id].kind \in {"ArrayEnumerable", "Iterable"} -> TRUE
      [] h[id].kind = "Iterator" -> h[id].pos = 0
      [] h[id].kind = "Enumerable" -> Untouched(h, h[id].enumerator)
      [] IsCursor(h[id]) ->
            h[id].index = -1 /\ ~h[id].current.set /\ UntouchedIterator(h, h[id].iterator)

\* The cursor a traversal of sequence s would use has already returned done
Exhausted(h, s) ==
    h[s].kind = "Enumerable" /\ h[h[s].enumerator].current.set
                             /\ h[h[s].enumerator].current.done

WritePatterns ==
    { <<0 .. MaxLen, {0}>>, <<{1}, {1}>> }

\* The arrays a caller passes as the second operand of concat
Others == { << >>, <<2>>, <<1, 2>> }

\* The user functions the calls are tried with
UserFunctions ==
    { Callback({1}, 1, c, {}, {}) : c \in -1 .. (MaxLen - 1) }
    \cup { Callback({1}, 1, -1, wp[1], wp[2]) : wp \in WritePatterns }

\* No function passed
Plain == {NoCallback}

\* A filter that lets the whole sequence through and one that cancels midway
Filters == {Callback({1}, 1, -1, {}, {}), Callback({1}, 1, 1, {}, {})}

\* A function argument that is one of the filters or is not passed
FiltersOrNone == Filters \cup Plain

\* A function argument that is one of the user functions or is not passed
UserFunctionsOrNone == UserFunctions \cup Plain

World == [heap |-> heap, log |-> << >>]

Sequences == {id \in DOMAIN heap : IsSequence(heap[id])}

NoLast ==
    [op |-> "none", recv |-> 0, cb |-> NoCallback, k |-> 0, untouched |-> FALSE,
     exhausted |-> FALSE, arr |-> << >>, ret |-> 0, ok |-> FALSE, threw |-> FALSE,
     log |-> << >>, e |-> 0, ekey |-> -1, pre |-> NoResult, prekey |-> -1,
     prev |-> [op |-> "none", recv |-> 0, n |-> 0]]

\* The previous call, as the next one remembers it: only a toArray() or a
\* count() without a predicate is remembered
Digest(l) ==
    IF l.op \in {"toArray", "count"} /\ ~l.cb.given
    THEN [op |-> l.op, recv |-> l.recv, n |-> IF l.op = "toArray" THEN Len(l.arr) ELSE l.ret]
    ELSE NoLast.prev

\* The record of a terminal call on sequence s that returned r
Outcome(op, s, cb, k, r) ==
    [NoLast EXCEPT !.op = op, !.recv = s, !.cb = cb, !.k = k,
                   !.untouched = Untouched(heap, s), !.exhausted = Exhausted(heap, s),
                   !.arr = IF "arr" \in DOMAIN r THEN r.arr ELSE << >>,
                   !.ret = IF "ret" \in DOMAIN r THEN r.ret ELSE 0,
                   !.threw = r.threw, !.log = r.w.log, !.e = r.e,
                   !.ekey = IF r.e = 0 THEN -1 ELSE key(r.w.heap[r.e]),
                   !.prev = Digest(last)]

\* The cursor `e` a terminal operator made for an array-backed sequence is a
\* local of the call and is gone when it returns
AfterCall(s, r) ==
    IF heap[s].kind = "ArrayEnumerable" THEN SubSeq(r.w.heap, 1, Len(heap)) ELSE r.w.heap

\* The caller keeps at most MaxHeap objects alive, MaxSeqs of them sequences
Fits(h) ==
    /\ Len(h) <= MaxHeap
    /\ Cardinality({i \in DOMAIN h : IsSequence(h[i])}) <= MaxSeqs

\* The caller is between calls: the result of the last one has been taken
Idle == last.op = "none"

\* What the caller passes where a Sequence<T> is expected: the iterators,
\* iterables and sequences it made itself
Held == {id \in DOMAIN heap : ~IsCursor(heap[id])}

\* s.toArray() and s.count() called one right after the other on the same s
Chained(s) ==
    /\ last.op \in {"toArray", "count"}
    /\ ~last.cb.given
    /\ last.recv = s
    /\ last.prev.op = "none"

-----------------------------------------------------------------------------
(* The calls                                                               *)

\* from(a) with the caller's array
From ==
    /\ Idle
    /\ Sequences = {}
    /\ \E r \in {from(World, ArrayArg(given))} :
        /\ Fits(r.w.heap)
        /\ heap' = r.w.heap
    /\ UNCHANGED <<given, cursors, last>>

\* a[Symbol.iterator](): a one-shot iterator over the caller's array
NewIterator ==
    /\ Idle
    /\ heap = << >>
    /\ heap' = Append(heap, [kind |-> "Iterator", items |-> given, pos |-> 0])
    /\ UNCHANGED <<given, cursors, last>>

\* an iterable that is not array-like (a Set, say) over the caller's items
NewIterable ==
    /\ Idle
    /\ heap = << >>
    /\ heap' = Append(heap, [kind |-> "Iterable", items |-> given])
    /\ UNCHANGED <<given, cursors, last>>

\* from(x) with an iterator, an iterable, a cursor or a sequence
FromObject ==
    /\ Idle
    /\ \E id \in Held :
        \E r \in {from(World, ObjectArg(id))} :
        /\ Fits(r.w.heap)
        /\ heap' = r.w.heap
    /\ UNCHANGED <<given, cursors, last>>

Where(P) ==
    /\ Idle
    /\ \E s \in Sequences, p \in P :
        \E r \in {where(World, s, p)} :
        /\ Fits(r.w.heap)
        /\ heap' = r.w.heap
    /\ UNCHANGED <<given, cursors, last>>

Select(P) ==
    /\ Idle
    /\ \E s \in Sequences, f \in P :
        \E r \in {select(World, s, f)} :
        /\ Fits(r.w.heap)
        /\ heap' = r.w.heap
    /\ UNCHANGED <<given, cursors, last>>

Concat ==
    /\ Idle
    /\ \E s \in Sequences,
          other \in {ArrayArg(a) : a \in Others} \cup {ObjectArg(id) : id \in Held} :
        \E r \in {concat(World, s, other)} :
        /\ Fits(r.w.heap)
        /\ heap' = r.w.heap
    /\ UNCHANGED <<given, cursors, last>>

ToArray ==
    \E s \in Sequences :
        \E r \in {toArray(World, s, NoCallback)} :
        /\ Idle \/ Chained(s)
        /\ Fits(AfterCall(s, r))
        /\ heap' = AfterCall(s, r)
        /\ last' = Outcome("toArray", s, NoCallback, 0, r)
        /\ UNCHANGED <<given, cursors>>

Count(P) ==
    \E s \in Sequences, p \in P :
        \E r \in {count(World, s, p)} :
        /\ Idle \/ (Chained(s) /\ ~p.given)
        /\ Fits(AfterCall(s, r))
        /\ heap' = AfterCall(s, r)
        /\ last' = Outcome("count", s, p, 0, r)
        /\ UNCHANGED <<given, cursors>>

Each(P) ==
    /\ Idle
    /\ \E s \in Sequences, a \in P :
        \E r \in {each(World, s, a)} :
        /\ Fits(AfterCall(s, r))
        /\ heap' = AfterCall(s, r)
        /\ last' = Outcome("each", s, a, 0, r)
    /\ UNCHANGED <<given, cursors>>

First(P) ==
    /\ Idle
    /\ \E s \in Sequences, p \in P :
        \E r \in {first(World, s, p)} :
        /\ Fits(AfterCall(s, r))
        /\ heap' = AfterCall(s, r)
        /\ last' = Outcome("first", s, p, 0, r)
    /\ UNCHANGED <<given, cursors>>

ElementAt ==
    /\ Idle
    /\ \E s \in Sequences, k \in -1 .. MaxLen :
        \E r \in {elementAt(World, s, k)} :
        /\ Fits(AfterCall(s, r))
        /\ heap' = AfterCall(s, r)
        /\ last' = Outcome("elementAt", s, NoCallback, k, r)
    /\ UNCHANGED <<given, cursors>>

Aggregate(P) ==
    /\ Idle
    /\ \E s \in Sequences, a \in P :
        \E r \in {aggregate(World, s, a, Undefined)} :
        /\ Fits(AfterCall(s, r))
        /\ heap' = AfterCall(s, r)
        /\ last' = Outcome("aggregate", s, a, 0, r)
    /\ UNCHANGED <<given, cursors>>

Last(P) ==
    /\ Idle
    /\ \E s \in Sequences, p \in P :
        \E r \in {last_(World, s, p)} :
        /\ Fits(AfterCall(s, r))
        /\ heap' = AfterCall(s, r)
        /\ last' = Outcome("last", s, p, 0, r)
    /\ UNCHANGED <<given, cursors>>

Single(P) ==
    /\ Idle
    /\ \E s \in Sequences, p \in P :
        \E r \in {single(World, s, p)} :
        /\ Fits(AfterCall(s, r))
        /\ heap' = AfterCall(s, r)
        /\ last' = Outcome("single", s, p, 0, r)
    /\ UNCHANGED <<given, cursors>>

All(P) ==
    /\ Idle
    /\ \E s \in Sequences, p \in P :
        \E r \in {all(World, s, p)} :
        /\ Fits(AfterCall(s, r))
        /\ heap' = AfterCall(s, r)
        /\ last' = Outcome("all", s, p, 0, r)
    /\ UNCHANGED <<given, cursors>>

\* s.any(p) (Any is a name of the TLC module)
AnyCall(P) ==
    /\ Idle
    /\ \E s \in Sequences, p \in P :
        \E r \in {any(World, s, p)} :
        /\ Fits(AfterCall(s, r))
        /\ heap' = AfterCall(s, r)
        /\ last' = Outcome("any", s, p, 0, r)
    /\ UNCHANGED <<given, cursors>>

\* s.getEnumerator(): the caller keeps the cursor
GetEnumerator ==
    /\ Idle
    /\ Cardinality(cursors) < MaxCursors
    /\ \E s \in Sequences :
        \E r \in {getEnumerator(World, s)} :
        /\ Fits(r.w.heap)
        /\ heap' = r.w.heap
        /\ cursors' = cursors \cup {r.e}
        /\ last' = [NoLast EXCEPT !.op = "getEnumerator", !.recv = s, !.e = r.e,
                                  !.ok = (r.e > Len(heap))]
    /\ UNCHANGED given

\* c.moveNext() on a cursor the caller keeps
MoveNext ==
    /\ Idle
    /\ \E c \in cursors :
        \E r \in {moveNext(World, c)} :
        /\ Fits(r.w.heap)
        /\ heap' = r.w.heap
        /\ last' = [NoLast EXCEPT !.op = "moveNext", !.recv = c, !.e = c, !.ok = r.ret,
                                  !.log = r.w.log, !.pre = heap[c].current,
                                  !.prekey = key(heap[c])]
    /\ UNCHANGED <<given, cursors>>

\* c.reset() on a cursor the caller keeps
Reset ==
    /\ Idle
    /\ \E c \in cursors :
        \E r \in {reset(World, c)} :
        /\ heap' = r.w.heap
        /\ last' = [NoLast EXCEPT !.op = "reset", !.recv = c, !.e = c, !.threw = r.threw,
                                  !.pre = heap[c].current, !.prekey = key(heap[c])]
    /\ UNCHANGED <<given, cursors>>

\* The caller takes the result of the call and goes on
Return ==
    /\ ~Idle
    /\ last' = NoLast
    /\ UNCHANGED <<given, heap, cursors>>

Init ==
    /\ given \in Arrays
    /\ heap = << >>
    /\ cursors = {}
    /\ last = NoLast

\* The caller builds pipelines over every kind of source and runs them
Next ==
    \/ From \/ NewIterator \/ NewIterable \/ FromObject
    \/ Where(Filters) \/ Select(Filters) \/ Concat
    \/ ToArray \/ Count(Plain) \/ Each(Filters) \/ First(Plain) \/ ElementAt
    \/ Return

Spec == Init /\ [][Next]_vars

\* The caller passes callbacks that cancel and that write the item context
NextCallbacks ==
    \/ From
    \/ Where(UserFunctions) \/ Select(UserFunctions)
    \/ ToArray \/ Count(UserFunctions) \/ Each(UserFunctions) \/ First(UserFunctions)
    \/ Aggregate(UserFunctions) \/ Last(UserFunctions) \/ Single(UserFunctions)
    \/ All(UserFunctions) \/ AnyCall(UserFunctions)
    \/ Return

SpecCallbacks == Init /\ [][NextCallbacks]_vars

\* The caller steps cursors by hand, next to whole traversals
NextCursor ==
    \/ From \/ NewIterator \/ NewIterable \/ FromObject
    \/ Where(Filters)
    \/ ToArray \/ Count(Plain) \/ Each(Filters)
    \/ GetEnumerator \/ MoveNext \/ Reset \/ Return

SpecCursor == Init /\ [][NextCursor]_vars

-----------------------------------------------------------------------------
(* Properties                                                              *)

Range(f) == {f[i] : i \in DOMAIN f}

\* The last call was `op` on an array-backed sequence
OnArray(op) ==
    /\ last.op = op
    /\ heap[last.recv].kind = "ArrayEnumerable"

\* C1: from(a).first() without a predicate returns a[0], the same value as
\* from(a).elementAt(0), when a is not empty, and throws when a is empty.
C1_FirstIsHead ==
    (OnArray("first") /\ ~last.cb.given) =>
        LET a == heap[last.recv].arr IN
        IF a = << >> THEN last.threw
        ELSE /\ ~last.threw
             /\ last.ret = a[1]
             /\ last.ret = elementAt(World, last.recv, 0).ret

C1_Witness ==
    /\ OnArray("first") /\ ~last.cb.given
    /\ Len(heap[last.recv].arr) >= 2
    /\ heap[last.recv].arr[1] # heap[last.recv].arr[2]
    /\ ~last.threw
    /\ last.ret = heap[last.recv].arr[1]

C1_WitnessEmpty ==
    /\ OnArray("first") /\ ~last.cb.given
    /\ heap[last.recv].arr = << >>
    /\ last.threw

\* The number of items the last toArray() or count() saw
Seen == IF last.op = "toArray" THEN Len(last.arr) ELSE last.ret

\* s.toArray() and s.count(), in either order, have just been called one
\* right after the other on the same sequence object
ToArrayAndCount ==
    /\ last.op \in {"toArray", "count"}
    /\ last.prev.op \in {"toArray", "count"}
    /\ last.prev.op # last.op
    /\ last.prev.recv = last.recv
    /\ ~last.cb.given

\* C2 as stated: for every sequence object s, array-backed or one-shot,
\* s.toArray().length equals s.count() called on that same object.
C2_AsStated ==
    ToArrayAndCount => Seen = last.prev.n

\* C2: s.toArray().length equals s.count() on the same object when s is
\* array-backed; when s is backed by a one-shot iterator the call made second
\* sees no items, whatever the first one saw.
C2_LengthIsCount ==
    ToArrayAndCount =>
        IF heap[last.recv].kind = "ArrayEnumerable"
        THEN Seen = last.prev.n /\ Seen = Len(heap[last.recv].arr)
        ELSE Seen = 0

C2_Witness ==
    /\ ToArrayAndCount
    /\ heap[last.recv].kind = "Enumerable"
    /\ last.prev.n >= 2
    /\ Seen = 0

C2_WitnessArray ==
    /\ ToArrayAndCount
    /\ heap[last.recv].kind = "ArrayEnumerable"
    /\ Seen >= 2
\* The generator frame behind the sequence the last call was made on
LazyFrame == heap[heap[last.recv].enumerator].iterator

\* The last call was a toArray() of a so far untouched lazy stage (`kind`)
\* made directly over an array-backed sequence
LazyOnArray(kind) ==
    /\ last.op = "toArray"
    /\ last.untouched
    /\ heap[last.recv].kind = "Enumerable"
    /\ LazyFrame.kind = kind
    /\ heap[LazyFrame.this].kind = "ArrayEnumerable"

\* The stage whose callback the last call drove over an array from its
\* start: the stage, the array `a`, the callback and the upstream key after
NotDriven == [stage |-> "none", a |-> << >>, cb |-> NoCallback, key |-> -1]
Driven ==
    CASE last.op \in {"count", "aggregate", "each"} /\ OnArray(last.op) /\ last.cb.user ->
            [stage |-> last.op, a |-> heap[last.recv].arr, cb |-> last.cb,
             key |-> last.ekey]
      [] LazyOnArray("whereInner") ->
            [stage |-> "where", a |-> heap[LazyFrame.this].arr,
             cb |-> LazyFrame.predicate, key |-> key(heap[LazyFrame.e])]
      [] LazyOnArray("selectInner") ->
            [stage |-> "select", a |-> heap[LazyFrame.this].arr,
             cb |-> LazyFrame.selector, key |-> key(heap[LazyFrame.e])]
      [] OTHER -> NotDriven

\* The callback of the driven stage set cancel at an item it was called
\* with (aggregate does not call it for the item at index 0)
Cancelled ==
    /\ Driven.stage # "none"
    /\ Driven.cb.cancelAt < Len(Driven.a)
    /\ Driven.cb.cancelAt >= (IF Driven.stage = "aggregate" THEN 1 ELSE 0)

RECURSIVE Folded(_, _, _)
\* The result of a stage that has processed exactly the first n items of a
Folded(a, cb, n) ==
    IF n = 0 THEN Undefined
    ELSE IF n = 1 THEN a[1]
    ELSE Folded(a, cb, n - 1) + (a[n] + cb.add)

Accepted(a, cb, n) == SelectSeq(SubSeq(a, 1, n), LAMBDA x : x \in cb.accept)

Processed(stage, a, cb, n) ==
    CASE stage = "count" -> Len(Accepted(a, cb, n))
      [] stage = "where" -> Accepted(a, cb, n)
      [] stage = "select" -> [j \in 1 .. n |-> a[j] + cb.add]
      [] stage = "aggregate" -> Folded(a, cb, n)

\* What the last call gave back
Got == IF last.op = "toArray" THEN last.arr ELSE last.ret

\* C3 as stated: when the callback sets cancel at item i, item i is still
\* fully processed by the stage (yielded, counted, folded) and no item after
\* i is pulled from upstream.
C3_AsStated ==
    Cancelled =>
        /\ Driven.key = Driven.cb.cancelAt
        /\ Driven.stage # "each" =>
              Got = Processed(Driven.stage, Driven.a, Driven.cb, Driven.cb.cancelAt + 1)

\* C3: when the callback sets cancel at item i, no item after i is pulled
\* from upstream, and item i itself is dropped by where, select, count and
\* aggregate (not yielded, not counted, not folded): the result is that of
\* the items before i.  Only each has acted on item i, its action being the
\* call that cancelled.
C3_CancelDropsItem ==
    Cancelled =>
        /\ Driven.key = Driven.cb.cancelAt
        /\ Driven.stage # "each" =>
              Got = Processed(Driven.stage, Driven.a, Driven.cb, Driven.cb.cancelAt)
        /\ Driven.stage = "each" =>
              /\ Len(last.log) = Driven.cb.cancelAt + 1
              /\ last.log[Len(last.log)].item = Driven.a[Driven.cb.cancelAt + 1]

C3_Witness ==
    /\ Cancelled
    /\ Driven.stage = "where"
    /\ Driven.cb.cancelAt = 1
    /\ Len(Driven.a) = 3
    /\ Driven.a[2] \in Driven.cb.accept
    /\ Got = <<Driven.a[1]>>
    /\ Driven.key = 1
\* C4: for where(p) over an array where p sets cancel at index c, the result
\* holds exactly the items with index < c that satisfied p, in source order,
\* and never an item whose index is >= c.
C4_WhereCancelPrefix ==
    (LazyOnArray("whereInner") /\ LazyFrame.predicate.cancelAt \in 0 .. (Len(heap[LazyFrame.this].arr) - 1)) =>
        LET c == LazyFrame.predicate.cancelAt
            a == heap[LazyFrame.this].arr
        IN /\ last.arr = SelectSeq(SubSeq(a, 1, c), LAMBDA x : x \in LazyFrame.predicate.accept)
           /\ Len(last.arr) <= c
           /\ LazyFrame.index = c

C4_Witness ==
    /\ LazyOnArray("whereInner")
    /\ LazyFrame.predicate.cancelAt = 2
    /\ heap[LazyFrame.this].arr = <<1, 2, 1>>
    /\ last.arr = <<1>>
\* The calls the last call made to the callback of `stage` (0: its own
\* argument, otherwise the cursor that owns a lazy stage), in order
CallsOf(stage) == SelectSeq(last.log, LAMBDA en : en.stage = stage)

\* The callback the calls of `stage` went to
CallbackOf(stage) ==
    IF stage = 0 THEN last.cb
    ELSE IF heap[stage].iterator.kind = "whereInner" THEN heap[stage].iterator.predicate
    ELSE heap[stage].iterator.selector

\* The stages the last call drove from their first item on
StagesFromStart ==
    IF last.op \in {"count", "each", "first", "last", "single", "all", "any"}
    THEN {0} \cup (IF last.untouched THEN {en.stage : en \in Range(last.log)} ELSE {})
    ELSE IF last.op = "toArray" /\ last.untouched
    THEN {en.stage : en \in Range(last.log)}
    ELSE {}

RECURSIVE StickyValue(_, _, _)
\* The value most recently assigned by one of the first n calls of L
StickyValue(L, cb, n) ==
    IF n = 0 THEN Undefined
    ELSE IF (n - 1) \in cb.vAt THEN L[n].item
    ELSE StickyValue(L, cb, n - 1)

\* C5: in a per-item stage (where, select, each, count, first, last, single,
\* all, any) the k-th call of the callback gets index k-1 (isFirst only for
\* k = 1), previousValue equal to the nextValue written by call k-1
\* (undefined for k = 1 and when call k-1 wrote none), and value equal to
\* the value most recently assigned by an earlier call.
C5_ItemContext ==
    \A stage \in StagesFromStart :
        LET L == CallsOf(stage)
            cb == CallbackOf(stage)
        IN \A k \in 1 .. Len(L) :
            /\ L[k].index = k - 1
            /\ L[k].isFirst = (k = 1)
            /\ L[k].previousValue =
                  (IF k > 1 /\ (k - 2) \in cb.nvAt THEN L[k - 1].item ELSE Undefined)
            /\ L[k].value = StickyValue(L, cb, k - 1)

C5_Witness ==
    /\ last.op = "count"
    /\ last.cb.vAt = {0}
    /\ Len(CallsOf(0)) = 3
    /\ CallsOf(0)[3].index = 2
    /\ CallsOf(0)[3].value = heap[last.recv].arr[1]
    /\ CallsOf(0)[3].previousValue = heap[last.recv].arr[2]
    /\ heap[last.recv].arr[1] # heap[last.recv].arr[2]
\* The cursors alive
Cursors == {id \in DOMAIN heap : IsCursor(heap[id])}

\* The last call was c.moveNext() on a cursor that had already returned false
MovedWhenDone == last.op = "moveNext" /\ last.pre.set /\ last.pre.done

\* C6: for any cursor, key is -1 before the first advance; once moveNext()
\* has returned false (the cursor holds a done result) every later
\* moveNext() returns false and leaves key, current and isValid unchanged.
C6_ExhaustedStays ==
    /\ \A c \in Cursors : ~heap[c].current.set => key(heap[c]) = -1
    /\ (last.op = "moveNext" /\ ~last.ok) =>
            heap[last.e].current.set /\ heap[last.e].current.done
    /\ MovedWhenDone =>
            /\ ~last.ok
            /\ key(heap[last.e]) = last.prekey
            /\ heap[last.e].current = last.pre
            /\ current(heap[last.e]) = Undefined
            /\ ~isValid(heap[last.e])

C6_Witness ==
    /\ MovedWhenDone
    /\ heap[last.e].kind = "IteratorEnumerator"
    /\ ~last.ok
    /\ last.prekey = 3
    /\ key(heap[last.e]) = 3

\* The items a cursor yields when it is advanced until moveNext() is false
Drained(e) == toArrayLoop(World, e, NoCallback, WithArr(LoopStart, << >>)).arr

\* C7: reset() on an array-backed cursor, after any number of advances,
\* returns it to the before-first state (key -1, isValid true) and the
\* advances that follow yield all items of the array again; reset() on an
\* iterator-backed cursor throws and leaves key and current unchanged;
\* canReset is true exactly for the array-backed cursor.
C7_Reset ==
    /\ \A c \in Cursors : canReset(heap[c]) = (heap[c].kind = "ArrayEnumerator")
    /\ last.op = "reset" =>
          IF heap[last.e].kind = "ArrayEnumerator"
          THEN /\ ~last.threw
               /\ key(heap[last.e]) = -1
               /\ isValid(heap[last.e])
               /\ Drained(last.e) = heap[last.e].arr
          ELSE /\ last.threw
               /\ key(heap[last.e]) = last.prekey
               /\ heap[last.e].current = last.pre

C7_Witness ==
    /\ last.op = "reset"
    /\ heap[last.e].kind = "ArrayEnumerator"
    /\ last.prekey = 2
    /\ Len(heap[last.e].arr) = 3
    /\ key(heap[last.e]) = -1
    /\ Drained(last.e) = heap[last.e].arr

C7_WitnessIterator ==
    /\ last.op = "reset"
    /\ heap[last.e].kind = "IteratorEnumerator"
    /\ last.threw
    /\ last.prekey = 1
    /\ key(heap[last.e]) = 1

\* Every item of the array was seen, in order, by the last traversal
SawAll ==
    LET a == heap[last.recv].arr IN
    CASE last.op = "toArray" -> last.arr = a
      [] last.op = "count" /\ ~last.cb.given -> last.ret = Len(a)
      [] last.op = "each" /\ last.cb.cancelAt = -1 ->
            [k \in 1 .. Len(last.log) |-> last.log[k].item] = a
      [] OTHER -> TRUE

\* A moveNext() moves none of the other array cursors the caller was handed
OthersStay ==
    last'.op = "moveNext" =>
        \A c \in cursors :
            (c # last'.e /\ heap[c].kind = "ArrayEnumerator") => heap'[c] = heap[c]

\* C8: for a sequence built by from() over an array, every getEnumerator()
\* returns a fresh cursor before the first element, advancing one cursor
\* never changes another, and every full traversal (toArray, count, each)
\* sees all items of the array in order, however many came before.
C8_FreshCursors ==
    /\ [](OnArray("getEnumerator") =>
            /\ last.ok
            /\ heap[last.e].kind = "ArrayEnumerator"
            /\ key(heap[last.e]) = -1
            /\ Untouched(heap, last.e))
    /\ []((last.op \in {"toArray", "count", "each"} /\ OnArray(last.op)) => SawAll)
    /\ [][OthersStay]_vars

C8_Witness ==
    /\ last.op = "moveNext"
    /\ last.ok
    /\ heap[last.e].kind = "ArrayEnumerator"
    /\ \E c \in cursors :
        /\ c # last.e
        /\ heap[c].kind = "ArrayEnumerator"
        /\ key(heap[c]) = 2
        /\ key(heap[last.e]) = 0
\* C9: for a sequence backed by a one-shot iterator (the result of where
\* and select included), once a traversal has run to the end every later
\* toArray, count or each sees zero items and completes without throwing.
C9_OneShotStaysEmpty ==
    (last.op \in {"toArray", "count", "each"} /\ last.exhausted) =>
        /\ ~last.threw
        /\ last.log = << >>
        /\ last.op = "toArray" => last.arr = << >>
        /\ last.op = "count" => last.ret = 0

C9_Witness ==
    /\ last.op = "toArray"
    /\ last.exhausted
    /\ LazyFrame.kind = "selectInner"
    /\ LazyFrame.index = 2
    /\ last.arr = << >>
    /\ ~last.threw

\* The last call was from(a).concat(b).count() with an array a and a
\* source b that had not been read from before
ConcatCounted ==
    /\ last.op = "count"
    /\ ~last.cb.given
    /\ last.untouched
    /\ heap[last.recv].kind = "Enumerable"
    /\ LazyFrame.kind = "concatInner"
    /\ heap[LazyFrame.this].kind = "ArrayEnumerable"
    /\ LazyFrame.other.val.kind = "object" =>
            heap[LazyFrame.other.val.id].kind # "Enumerable"

\* The number of items of a source b: an array-like value, an iterator
\* that has not been read from, an iterable, or an array-backed sequence
NumberOfItems(b) ==
    IF b.kind = "array" THEN Len(b.arr)
    ELSE IF heap[b.id].kind = "ArrayEnumerable" THEN Len(heap[b.id].arr)
    ELSE Len(heap[b.id].items)

\* C10: for all sources a and b of any kind accepted as a Sequence
\* (array-like, iterator, iterable, sequence object),
\* from(a).concat(b).count() is the number of items of a plus that of b.
C10_ConcatCount ==
    ConcatCounted =>
        last.ret = Len(heap[LazyFrame.this].arr) + NumberOfItems(LazyFrame.other.val)

\* What concat does instead: only an array-like b contributes items
C10_ConcatCountOfArrays ==
    ConcatCounted =>
        last.ret = Len(heap[LazyFrame.this].arr)
                   + (IF LazyFrame.other.val.kind = "array"
                      THEN Len(LazyFrame.other.val.arr) ELSE 0)

C10_Witness ==
    /\ ConcatCounted
    /\ LazyFrame.other.val.kind = "object"
    /\ heap[LazyFrame.other.val.id].kind = "Iterable"
    /\ Len(heap[LazyFrame.other.val.id].items) = 2
    /\ last.ret = 2

-----------------------------------------------------------------------------
(* The operators that compare, pair, group and sort items.  Their items    *)
(* are JavaScript values with a type: [t |-> typeof, v |-> content].  A    *)
(* stage is applied to the items its source yields and gives the items it  *)
(* yields itself; the caller's pipeline is kept in `last`.                 *)

Num(n) == [t |-> "number", v |-> n]
\* the decimal string of n >= 0; v = -1 is the empty string
Str(n) == [t |-> "string", v |-> n]
EmptyString == Str(-1)
Bool(b) == [t |-> "boolean", v |-> IF b THEN 1 ELSE 0]
Null == [t |-> "null", v |-> 0]
Undef == [t |-> "undefined", v |-> 0]
\* a function the caller wrote, known by its name
Fn(name) == [t |-> "function", v |-> 0, name |-> name]

\* if (x): the truthiness of a value
Truthy(x) ==
    CASE x.t = "number" -> x.v # 0
      [] x.t = "string" -> x # EmptyString
      [] x.t = "boolean" -> x.v = 1
      [] x.t \in {"null", "undefined"} -> FALSE
      [] OTHER -> TRUE

\* Number(x) of a primitive
ToNumber(x) == IF x = EmptyString THEN 0 ELSE x.v

\* x === y
StrictEquals(x, y) == x = y

\* x == y
LooseEquals(x, y) ==
    IF x.t = y.t THEN x = y
    ELSE IF x.t \in {"null", "undefined"} \/ y.t \in {"null", "undefined"}
    THEN x.t \in {"null", "undefined"} /\ y.t \in {"null", "undefined"}
    ELSE IF x.t = "function" \/ y.t = "function" THEN FALSE
    ELSE ToNumber(x) = ToNumber(y)

\* x + y: the sum of two numbers, else the two texts joined (y is a number
\* or a string of one digit here)
JsPlus(x, y) ==
    IF x.t = "number" /\ y.t = "number" THEN Num(x.v + y.v) ELSE Str(x.v * 10 + y.v)

\* What a call returns: a value, or an exception
Returned(x) == [threw |-> FALSE, ret |-> x]
Thrown == [threw |-> TRUE, ret |-> Undef]

\* asFunc(v, throwException): a function is returned as it is, a falsy value
\* too; any other value is read as a lambda expression, which no string of
\* this model is
asFunc(v, throwException) ==
    IF v.t = "function" THEN Returned(v)
    ELSE IF ~Truthy(v) THEN Returned(v)
    ELSE IF throwException THEN Thrown
    ELSE Returned(Bool(FALSE))

\* x < y: two strings by their text (strings of one length here), any other
\* pair as numbers
JsLess(x, y) == ToNumber(x) < ToNumber(y)

RECURSIVE Call(_, _, _)

\* A composite comparer that lets the secondary key decide first: what the
\* properties of thenBy must tell apart from the real one
compareLevelsSecondFirst(f, x, y) ==
    IF 0 # Call(f.c1, x.level_1, y.level_1).v
    THEN Call(f.c1, x.level_1, y.level_1)
    ELSE Call(f.c0, x.level_0, y.level_0)

\* The comparer thenBy passes to orderBy: the primary comparer decides,
\* the secondary one only when the primary keys tie
compareLevels(f, x, y) ==
    IF 0 # Call(f.c0, x.level_0, y.level_0).v
    THEN Call(f.c0, x.level_0, y.level_0)
    ELSE Call(f.c1, x.level_1, y.level_1)

\* f(x, y) for the functions of the model.  The closures the library makes:
\* strict, loose, truthy (func(...) ? true : false), plus, identity.  The
\* functions a caller wrote: sameType is typeof x === typeof y, less is
\* Number(x) < Number(y), difference is x - y, parity is x % 2 (with the sign
\* of x), number is Number(x).
Call(f, x, y) ==
    CASE f.name = "strict" -> Bool(StrictEquals(x, y))
      [] f.name = "loose" -> Bool(LooseEquals(x, y))
      [] f.name = "truthy" -> Bool(Truthy(Call(f.func, x, y)))
      [] f.name = "sameType" -> Bool(x.t = y.t)
      [] f.name = "less" -> Bool(ToNumber(x) < ToNumber(y))
      [] f.name = "difference" -> Num(ToNumber(x) - ToNumber(y))
      [] f.name = "plus" -> JsPlus(x, y)
      [] f.name = "identity" -> x
      [] f.name = "parity" -> IF ToNumber(x) >= 0 THEN Num(ToNumber(x) % 2)
                              ELSE Num(0 - ((0 - ToNumber(x)) % 2))
      [] f.name = "number" -> Num(ToNumber(x))
      [] f.name = "isString" -> Bool(x.t = "string")
      [] f.name = "always" -> Bool(TRUE)
      [] f.name = "descending" -> Num(IF JsLess(y, x) THEN -1 ELSE IF JsLess(x, y) THEN 1 ELSE 0)
      [] f.name = "pair" -> [t |-> "object", v |-> 0, outer |-> x, inner |-> y]
      [] f.name = "compare" -> Num(IF JsLess(x, y) THEN -1 ELSE IF JsLess(y, x) THEN 1 ELSE 0)
      [] f.name = "sign" ->
            Num(IF ToNumber(Call(f.func, x, y)) > 0 THEN 1
                ELSE IF ToNumber(Call(f.func, x, y)) < 0 THEN -1 ELSE 0)
      [] f.name = "levels" ->
            [t |-> "object", v |-> 0,
             level_0 |-> Call(f.s0, x, y), level_1 |-> Call(f.s1, x, y)]
      [] f.name = "byLevels" -> compareLevels(f, x, y)

\* toEqualityComparerSafe(val): (x, y) => x === y for `true`, a function
\* wrapped as `func(...) ? true : false`, else (x, y) => x == y
toEqualityComparerSafe(val) ==
    IF val = Bool(TRUE) THEN Returned(Fn("strict"))
    ELSE IF asFunc(val, TRUE).threw THEN Thrown
    ELSE IF Truthy(asFunc(val, TRUE).ret)
    THEN Returned([t |-> "function", v |-> 0, name |-> "truthy", func |-> asFunc(val, TRUE).ret])
    ELSE Returned(Fn("loose"))

RECURSIVE distinctInnerLoop(_, _, _, _)

\* A distinct loop that remembers an item the first time and yields it every
\* later time: what the properties of distinct must tell apart from the real
\* loop
distinctInnerLoopYieldingRepeats(items, ec, temp, out) ==
    IF items = << >> THEN out
    ELSE LET x == Head(items)
             alreadyExists == \E i \in 1 .. Len(temp) : Truthy(Call(ec, x, temp[i]))
         IN IF ~alreadyExists
            THEN distinctInnerLoop(Tail(items), ec, Append(temp, x), out)
            ELSE distinctInnerLoop(Tail(items), ec, temp, Append(out, x))

\* distinctInner, the loop over the items of this sequence: temp holds the
\* items accepted so far, out the items yielded so far
distinctInnerLoop(items, ec, temp, out) ==
    IF items = << >> THEN out
    ELSE LET x == Head(items)
             alreadyExists == \E i \in 1 .. Len(temp) : Truthy(Call(ec, x, temp[i]))
         IN IF ~alreadyExists
            THEN distinctInnerLoop(Tail(items), ec, Append(temp, x), Append(out, x))
            ELSE distinctInnerLoop(Tail(items), ec, temp, out)

\* distinctInner(comparer): the comparer is made safe once more
distinctInner(items, comparer) ==
    IF toEqualityComparerSafe(comparer).threw THEN [threw |-> TRUE, items |-> << >>]
    ELSE [threw |-> FALSE,
          items |-> distinctInnerLoop(items, toEqualityComparerSafe(comparer).ret, << >>, << >>)]

\* items.distinct(comparer), traversed
distinct(items, comparer) ==
    IF toEqualityComparerSafe(comparer).threw THEN [threw |-> TRUE, items |-> << >>]
    ELSE distinctInner(items, toEqualityComparerSafe(comparer).ret)

\* The values and arrays the caller makes sequences of
MaxStages == 2
JsValues == {Num(1), Num(2), Str(1)}
JsArrays == UNION {[1 .. n -> JsValues] : n \in 0 .. MaxLen}
ShortJsArrays == {a \in JsArrays : Len(a) <= 2}

\* The equality comparers a caller passes: none, `true`, or a function
EqualityComparers ==
    {Undef, Bool(TRUE), Fn("sameType"), Fn("less"), Fn("difference")}

\* The pipeline after from(a)
Made(a) ==
    [op |-> "from", arg |-> Undef, src |-> << >>, items |-> a, threw |-> FALSE, n |-> 0,
     prev |-> [op |-> "none", arg |-> Undef]]

\* The pipeline after one more stage `op(arg)` that yields r.items
Stage(op, arg, r) ==
    [op |-> op, arg |-> arg, src |-> last.items, items |-> r.items, threw |-> r.threw,
     n |-> last.n + 1, prev |-> [op |-> last.op, arg |-> last.arg]]

\* The pipeline after an operator whose result the caller only reads
Final(op, arg, r) == [Stage(op, arg, r) EXCEPT !.n = MaxStages]

\* The caller may add a stage to its pipeline
Open == ~last.threw /\ last.n < MaxStages

Distinct ==
    /\ Open
    /\ \E c \in EqualityComparers : last' = Stage("distinct", c, distinct(last.items, c))
    /\ UNCHANGED <<given, heap, cursors>>

\* toZipperSafe(val): the function, else (item1, item2) => item1 + item2
toZipperSafe(val) ==
    IF asFunc(val, TRUE).threw THEN Thrown
    ELSE IF Truthy(asFunc(val, TRUE).ret) THEN Returned(asFunc(val, TRUE).ret)
    ELSE Returned(Fn("plus"))

RECURSIVE zipInnerLoop(_, _, _, _)

\* A zip loop that hands the two items to the zipper the other way round:
\* what the properties of zip must tell apart from the real loop
zipInnerLoopSwapped(items, other, zipper, out) ==
    IF items = << >> \/ other = << >> THEN out
    ELSE zipInnerLoop(Tail(items), Tail(other), zipper,
                      Append(out, Call(zipper, Head(other), Head(items))))

\* zipInner, the loop `while (e.moveNext() && other.moveNext())`: the
\* zippers of the model leave ctx1.cancel and ctx2.cancel alone
zipInnerLoop(items, other, zipper, out) ==
    IF items = << >> \/ other = << >> THEN out
    ELSE zipInnerLoop(Tail(items), Tail(other), zipper,
                      Append(out, Call(zipper, Head(items), Head(other))))

\* items.zip(other, zipper), traversed
zip(items, other, zipper) ==
    IF toZipperSafe(zipper).threw THEN [threw |-> TRUE, items |-> << >>]
    ELSE [threw |-> FALSE,
          items |-> zipInnerLoop(items, other, toZipperSafe(zipper).ret, << >>)]

\* The zippers a caller passes: none, or a function
Zippers == {Undef, Fn("plus"), Fn("difference")}

\* zip over items the caller supplied (not over the results of a zip before)
Zip ==
    /\ Open
    /\ \A i \in 1 .. Len(last.items) : last.items[i] \in JsValues
    /\ \E z \in Zippers : last' = Stage("zip", z, zip(last.items, given.o, z))
    /\ UNCHANGED <<given, heap, cursors>>

\* toSelectorSafe(val) for a selector of items with a type: the function,
\* else x => x
keySelectorSafe(val) ==
    IF asFunc(val, TRUE).threw THEN Thrown
    ELSE IF Truthy(asFunc(val, TRUE).ret) THEN Returned(asFunc(val, TRUE).ret)
    ELSE Returned(Fn("identity"))

RECURSIVE groupByLoop(_, _, _, _)

\* A groupBy loop that looks for the key in the newest group only: what the
\* properties of groupBy must tell apart from the real loop
groupByLoopLastGroupOnly(items, ks, ksec, groupings) ==
    IF items = << >> THEN groupings
    ELSE LET x == Head(items)
             itemKey == Call(ks, x, Undef)
             n == Len(groupings)
         IN IF n > 0 /\ Truthy(Call(ksec, itemKey, groupings[n].key))
            THEN groupByLoop(Tail(items), ks, ksec,
                             [groupings EXCEPT ![n].items = Append(@, x)])
            ELSE groupByLoop(Tail(items), ks, ksec,
                             Append(groupings, [key |-> itemKey, items |-> <<x>>]))

\* groupBy, the loop over the items: the item joins the first group whose
\* key the comparer accepts, else a new group at the end (the selectors of
\* the model leave ctx.cancel alone)
groupByLoop(items, ks, ksec, groupings) ==
    IF items = << >> THEN groupings
    ELSE LET x == Head(items)
             itemKey == Call(ks, x, Undef)
             found == {i \in 1 .. Len(groupings) : Truthy(Call(ksec, itemKey, groupings[i].key))}
         IN IF found # {}
            THEN LET grp == CHOOSE i \in found : \A j \in found : i <= j
                 IN groupByLoop(Tail(items), ks, ksec,
                                [groupings EXCEPT ![grp].items = Append(@, x)])
            ELSE groupByLoop(Tail(items), ks, ksec,
                             Append(groupings, [key |-> itemKey, items |-> <<x>>]))

\* items.groupBy(keySelector, keyEqualityComparer): the groups, each with
\* its key and its items
groupBy(items, keySelector, keyEqualityComparer) ==
    IF keySelectorSafe(keySelector).threw \/ toEqualityComparerSafe(keyEqualityComparer).threw
    THEN [threw |-> TRUE, items |-> << >>]
    ELSE [threw |-> FALSE,
          items |-> groupByLoop(items, keySelectorSafe(keySelector).ret,
                                toEqualityComparerSafe(keyEqualityComparer).ret, << >>)]

\* The key selectors a caller passes
KeySelectors == {Undef, Fn("parity"), Fn("number")}

\* The key equalities a caller passes: none, `true`, or a function
KeyEqualities == {Undef, Bool(TRUE), Fn("sameType")}

GroupBy ==
    /\ Open
    /\ \E k \in KeySelectors, c \in KeyEqualities :
            last' = Final("groupBy", [t |-> "arguments", k |-> k, c |-> c],
                          groupBy(last.items, k, c))
    /\ UNCHANGED <<given, heap, cursors>>

\* toComparerSafe(val): the function with its result cut to -1, 0 or 1,
\* else the comparer by < and >
toComparerSafe(val) ==
    IF asFunc(val, TRUE).threw THEN Thrown
    ELSE IF Truthy(asFunc(val, TRUE).ret)
    THEN Returned([t |-> "function", v |-> 0, name |-> "sign", func |-> asFunc(val, TRUE).ret])
    ELSE Returned(Fn("compare"))

RECURSIVE arraySort(_, _, _)

\* A sort that puts an item before the items it ties with: what the
\* properties of orderBy must tell apart from the real one
arraySortTiesReversed(arr, comparer, out) ==
    IF arr = << >> THEN out
    ELSE LET sv == Head(arr)
             pos == CHOOSE i \in 0 .. Len(out) :
                        /\ \A j \in 1 .. i : Call(comparer, out[j].sortBy, sv.sortBy).v < 0
                        /\ i < Len(out) => Call(comparer, out[i + 1].sortBy, sv.sortBy).v >= 0
         IN arraySort(Tail(arr), comparer,
                      SubSeq(out, 1, pos) \o <<sv>> \o SubSeq(out, pos + 1, Len(out)))

\* Array.prototype.sort((x, y) => comparer(x.sortBy, y.sortBy)): a stable
\* sort, by insertion of each item behind the items that do not come after it
arraySort(arr, comparer, out) ==
    IF arr = << >> THEN out
    ELSE LET sv == Head(arr)
             behind == {i \in 1 .. Len(out) : Call(comparer, out[i].sortBy, sv.sortBy).v <= 0}
             pos == IF behind = {} THEN 0
                    ELSE CHOOSE i \in behind : \A j \in behind : j <= i
         IN arraySort(Tail(arr), comparer,
                      SubSeq(out, 1, pos) \o <<sv>> \o SubSeq(out, pos + 1, Len(out)))

\* new OrderedEnumerable(seq, selector, comparer): the items of seq with
\* their sort values, sorted; the original items are kept
OrderedEnumerable(items, selector, comparer) ==
    IF toComparerSafe(comparer).threw \/ keySelectorSafe(selector).threw
    THEN [threw |-> TRUE, items |-> << >>]
    ELSE LET sortValues == [i \in 1 .. Len(items) |->
                               [sortBy |-> Call(keySelectorSafe(selector).ret, items[i], Undef),
                                value |-> items[i]]]
             sorted == arraySort(sortValues, toComparerSafe(comparer).ret, << >>)
         IN [threw |-> FALSE,
             items |-> [i \in 1 .. Len(items) |-> sorted[i].value],
             originalItems |-> items,
             selector |-> keySelectorSafe(selector).ret,
             comparer |-> toComparerSafe(comparer).ret]

\* items.orderBy(selector, comparer)
orderBy(items, selector, comparer) == OrderedEnumerable(items, selector, comparer)

\* me.thenBy(selector, comparer): the original items of me, ordered by the
\* pair of the keys of me and of the new selector
thenBy(me, selector, comparer) ==
    IF toComparerSafe(comparer).threw \/ keySelectorSafe(selector).threw
    THEN [threw |-> TRUE, items |-> << >>]
    ELSE orderBy(me.originalItems,
                 [t |-> "function", v |-> 0, name |-> "levels",
                  s0 |-> me.selector, s1 |-> keySelectorSafe(selector).ret],
                 [t |-> "function", v |-> 0, name |-> "byLevels",
                  c0 |-> me.comparer, c1 |-> toComparerSafe(comparer).ret])

\* The sort keys and the comparers a caller passes
MaxLevels == 3
SortSelectors == {Fn("parity"), Fn("number"), Fn("isString")}
Comparers == {Undef, Fn("difference")}

\* The pipeline after orderBy / thenBy returned the ordered sequence r over
\* the items src, by the keys `levels`
Ordered(op, levels, src, r) ==
    [op |-> op, arg |-> [t |-> "ordering", levels |-> levels, me |-> r],
     src |-> src, items |-> r.items, threw |-> r.threw, n |-> last.n + 1,
     prev |-> [op |-> last.op, arg |-> Undef]]

\* from(a).orderBy(k, c)
OrderBy ==
    /\ last.op = "from"
    /\ \E k \in SortSelectors \cup {Undef}, c \in Comparers :
            last' = Ordered("orderBy", <<[k |-> k, c |-> c]>>, last.items,
                            orderBy(last.items, k, c))
    /\ UNCHANGED <<given, heap, cursors>>

ThenBy ==
    /\ last.op \in {"orderBy", "thenBy"}
    /\ Len(last.arg.levels) < MaxLevels
    /\ \E k \in SortSelectors, c \in Comparers :
            last' = Ordered("thenBy", Append(last.arg.levels, [k |-> k, c |-> c]), last.src,
                            thenBy(last.arg.me, k, c))
    /\ UNCHANGED <<given, heap, cursors>>

\* The caller starts again from its array
Again ==
    /\ last.n > 0
    /\ last' = Made(given.a)
    /\ UNCHANGED <<given, heap, cursors>>

InitStages ==
    /\ given \in [a : JsArrays, o : ShortJsArrays]
    /\ heap = << >>
    /\ cursors = {}
    /\ last = Made(given.a)

NextStages ==
    \/ Distinct \/ Zip \/ GroupBy
    \/ Again

SpecStages == InitStages /\ [][NextStages]_vars

\* The caller sorts its array by up to MaxLevels keys
NextOrder ==
    \/ OrderBy \/ ThenBy
    \/ Again

InitOrder ==
    /\ given \in [a : JsArrays, o : {<< >>}]
    /\ heap = << >>
    /\ cursors = {}
    /\ last = Made(given.a)

SpecOrder == InitOrder /\ [][NextOrder]_vars

\* C11: from(a).distinct(c).distinct(c).toArray() equals
\* from(a).distinct(c).toArray() for every array a and every equality
\* comparer c (default, strict, custom): the second distinct yields exactly
\* the items the first one yielded.
C11_DistinctIdempotent ==
    (last.op = "distinct" /\ last.prev.op = "distinct" /\ last.arg = last.prev.arg) =>
        /\ ~last.threw
        /\ last.items = last.src

\* distinct(less) twice over an array from which the first distinct dropped
\* an item
C11_Witness ==
    /\ last.op = "distinct" /\ last.prev.op = "distinct"
    /\ last.arg = Fn("less") /\ last.prev.arg = Fn("less")
    /\ Len(last.items) = 2
    /\ Len(given.a) = 3

Min(m, n) == IF m < n THEN m ELSE n

\* C12: from(a).zip(b, z).toArray() has min(|a|, |b|) items and its i-th
\* item is z(a[i], b[i]), for all arrays a and b and every zipper z.
C12_Zip ==
    (last.op = "zip" /\ last.arg.t = "function") =>
        /\ ~last.threw
        /\ Len(last.items) = Min(Len(last.src), Len(given.o))
        /\ \A i \in 1 .. Len(last.items) :
                last.items[i] = Call(last.arg, last.src[i], given.o[i])

\* zip with (x, y) => x - y of [2, 1, 1] and [1, 2]: the longer array is cut
C12_Witness ==
    /\ last.op = "zip" /\ last.arg = Fn("difference")
    /\ last.src = <<Num(2), Num(1), Num(1)>>
    /\ given.o = <<Num(1), Num(2)>>
    /\ last.items = <<Num(1), Num(-1)>>

\* The key of item i of the source of the last stage, under selector k
KeyOf(k, i) == Call(keySelectorSafe(k).ret, last.src[i], Undef)

\* Keys x and y are equal under the key equality c
SameKey(c, x, y) == Truthy(Call(toEqualityComparerSafe(c).ret, x, y))

\* The first source item whose key equals that of item i
FirstOfKey(k, c, i) ==
    CHOOSE j \in 1 .. i :
        /\ SameKey(c, KeyOf(k, i), KeyOf(k, j))
        /\ \A h \in 1 .. (j - 1) : ~SameKey(c, KeyOf(k, i), KeyOf(k, h))

\* The source items that open a group, and how many of them come up to j
Openers(k, c) == {FirstOfKey(k, c, i) : i \in 1 .. Len(last.src)}
Rank(k, c, j) == Cardinality({h \in Openers(k, c) : h <= j})

\* The source items, in source order, whose key first appeared at item j
Members(k, c, j) ==
    LET pick[i \in 0 .. Len(last.src)] ==
            IF i = 0 THEN << >>
            ELSE IF FirstOfKey(k, c, i) = j THEN Append(pick[i - 1], last.src[i])
            ELSE pick[i - 1]
    IN pick[Len(last.src)]

\* C13: groupBy(keySelector, keyEq) partitions the source: there is one
\* group per distinct key, in the order in which the keys first appear; each
\* group holds, in source order, exactly the items whose key equals its key,
\* so every item is in exactly one group.
C13_GroupBy ==
    last.op = "groupBy" =>
        /\ ~last.threw
        /\ Len(last.items) = Cardinality(Openers(last.arg.k, last.arg.c))
        /\ \A j \in Openers(last.arg.k, last.arg.c) :
              LET g == last.items[Rank(last.arg.k, last.arg.c, j)] IN
              /\ g.key = KeyOf(last.arg.k, j)
              /\ g.items = Members(last.arg.k, last.arg.c, j)

\* [1, 2, 1] by parity: two groups, [1, 1] and [2]
C13_Witness ==
    /\ last.op = "groupBy" /\ last.arg.k = Fn("parity") /\ last.arg.c = Undef
    /\ last.src = <<Num(1), Num(2), Num(1)>>
    /\ last.items = << [key |-> Num(1), items |-> <<Num(1), Num(1)>>],
                       [key |-> Num(0), items |-> <<Num(2)>>] >>

\* How sort level l compares source items i and j: below, at or above 0
LevelCompare(l, i, j) ==
    Call(toComparerSafe(l.c).ret, Call(keySelectorSafe(l.k).ret, last.src[i], Undef),
                                  Call(keySelectorSafe(l.k).ret, last.src[j], Undef)).v

\* Source item i has to come before source item j: the first level that
\* tells them apart puts i first, or no level does and i is the earlier one
ComesBefore(i, j) ==
    LET L == last.arg.levels
        apart == {l \in 1 .. Len(L) : LevelCompare(L[l], i, j) # 0}
    IN IF apart = {} THEN i < j
       ELSE LevelCompare(L[CHOOSE l \in apart : \A m \in apart : l <= m], i, j) < 0

\* The items of the last stage are those of its source in the order above
InOrder ==
    \E p \in Permutations(1 .. Len(last.src)) :
        /\ last.items = [i \in 1 .. Len(last.src) |-> last.src[p[i]]]
        /\ \A i, j \in 1 .. Len(last.src) : i < j => ComesBefore(p[i], p[j])

\* C14: from(a).orderBy(k).toArray() is a permutation of a in non-decreasing
\* key order in which items with equal keys keep their source order.
C14_OrderByStable ==
    last.op = "orderBy" => (~last.threw /\ InOrder)

\* [1, 2, '1'] by x % 2: 2 first, then 1 and '1' in their source order
C14_Witness ==
    /\ last.op = "orderBy"
    /\ last.arg.levels = <<[k |-> Fn("parity"), c |-> Undef]>>
    /\ last.src = <<Num(1), Num(2), Str(1)>>
    /\ last.items = <<Num(2), Num(1), Str(1)>>

\* C15: from(a).orderBy(k1).thenBy(k2).toArray() is the items of a ordered
\* by k1 and, among items whose k1 keys compare equal, by k2; a further
\* thenBy(k3) only orders the items that tie on k1 and k2.
C15_ThenBy ==
    last.op = "thenBy" => (~last.threw /\ last.src = given.a /\ InOrder)

\* ['1', 2, 1] by x % 2, then by typeof x === "string", then by Number(x):
\* the second key puts 1 before '1'
C15_Witness ==
    /\ last.op = "thenBy"
    /\ last.arg.levels = <<[k |-> Fn("parity"), c |-> Undef],
                           [k |-> Fn("isString"), c |-> Undef],
                           [k |-> Fn("number"), c |-> Fn("difference")]>>
    /\ last.src = <<Str(1), Num(2), Num(1)>>
    /\ last.items = <<Num(2), Num(1), Str(1)>>

-----------------------------------------------------------------------------
(* Calls that pass a default value                                         *)

\* The default values a caller passes: none, and a number that is no item
DefaultValues == {Undefined, 7}

\* s.aggregate(a, d)
AggregateOrDefault(P) ==
    /\ Idle
    /\ \E s \in Sequences, a \in P, d \in DefaultValues :
        \E r \in {aggregate(World, s, a, d)} :
        /\ Fits(AfterCall(s, r))
        /\ heap' = AfterCall(s, r)
        /\ last' = Outcome("aggregate", s, a, d, r)
    /\ UNCHANGED <<given, cursors>>

\* The caller folds sequences, filtered or not, with and without a default
NextDefaults ==
    \/ From
    \/ Where(Filters)
    \/ AggregateOrDefault(UserFunctionsOrNone)
    \/ Return

SpecDefaults == Init /\ [][NextDefaults]_vars

\* The aggregator of the last call set cancel at an item it was called with
AggregateCancelled ==
    /\ last.cb.user
    /\ last.cb.cancelAt >= 1
    /\ last.cb.cancelAt < Len(heap[last.recv].arr)

RECURSIVE FoldLeft(_, _, _)
\* f(...f(f(x0, x1), x2)..., xn) over the first n items of a, n >= 1, for the
\* aggregator f(r, x) = r + (x + add)
FoldLeft(a, add, n) ==
    IF n = 1 THEN a[1] ELSE FoldLeft(a, add, n - 1) + (a[n] + add)

\* C16: aggregate(f, d) returns d when the source is empty; for a non-empty
\* source x0..xn with no cancellation it returns f(...f(f(x0, x1), x2)..., xn):
\* the first item seeds the running result without a call to f, and f is
\* called exactly once for each later item, in source order.
C16_AggregateFold ==
    (OnArray("aggregate") /\ ~AggregateCancelled) =>
        LET a == heap[last.recv].arr
            calls == CallsOf(0)
        IN /\ ~last.threw
           /\ a = << >> => last.ret = last.k /\ last.log = << >>
           /\ a # << >> => last.ret = FoldLeft(a, last.cb.add, Len(a))
           /\ last.cb.user /\ a # << >> =>
                 /\ last.log = calls
                 /\ Len(calls) = Len(a) - 1
                 /\ \A i \in DOMAIN calls :
                       calls[i].index = i /\ calls[i].item = a[i + 1]
           /\ ~last.cb.user => last.log = << >>

C16_Witness ==
    /\ OnArray("aggregate")
    /\ ~AggregateCancelled
    /\ last.cb.user
    /\ last.k = 7
    /\ Len(heap[last.recv].arr) = MaxLen
    /\ Len(last.log) = MaxLen - 1
    /\ last.ret = FoldLeft(heap[last.recv].arr, last.cb.add, MaxLen)

\* What C16 says of an empty source, reached: the default comes back
C16_EmptyReturnsDefault ==
    /\ OnArray("aggregate")
    /\ heap[last.recv].arr = << >>
    /\ last.k = 7
    /\ last.ret = 7

-----------------------------------------------------------------------------
(* firstOrDefault, lastOrDefault, singleOrDefault                          *)

\* toPredicateSafe(val) of a typed value: the function, its result made a
\* boolean, else () => true
predicateSafe(val) ==
    IF asFunc(val, TRUE).threw THEN Thrown
    ELSE IF Truthy(asFunc(val, TRUE).ret)
    THEN Returned([t |-> "function", v |-> 0, name |-> "truthy", func |-> asFunc(val, TRUE).ret])
    ELSE Returned(Fn("always"))

\* toOrDefaultArgs: the first argument becomes the default value when
\* asFunc(predicate, false) is false itself and it is the only argument
toOrDefaultArgs(predicateOrDefaultValue, defaultValue, argCount) ==
    LET func == asFunc(predicateOrDefaultValue, FALSE).ret
        swap == StrictEquals(Bool(FALSE), func) /\ argCount = 1
        predicate == IF swap THEN Null ELSE predicateOrDefaultValue
        defVal == IF swap THEN predicateOrDefaultValue ELSE defaultValue
    IN [threw |-> predicateSafe(predicate).threw,
        predicate |-> predicateSafe(predicate).ret,
        defaultValue |-> defVal]

\* The arguments of a call as the callee sees them: a missing one is undefined
Argument(args, i) == IF i <= Len(args) THEN args[i] ELSE Undef

RECURSIVE firstOrDefaultLoop(_, _, _)
\* the loop of firstOrDefault: the first item the predicate accepts
firstOrDefaultLoop(items, predicate, defaultValue) ==
    IF items = << >> THEN Returned(defaultValue)
    ELSE IF Truthy(Call(predicate, Head(items), Undef)) THEN Returned(Head(items))
    ELSE firstOrDefaultLoop(Tail(items), predicate, defaultValue)

firstOrDefault(items, args) ==
    LET a == toOrDefaultArgs(Argument(args, 1), Argument(args, 2), Len(args))
    IN IF a.threw THEN Thrown ELSE firstOrDefaultLoop(items, a.predicate, a.defaultValue)

RECURSIVE lastOrDefaultLoop(_, _, _)
\* the loop of lastOrDefault: `result` is the last accepted item so far
lastOrDefaultLoop(items, predicate, result) ==
    IF items = << >> THEN Returned(result)
    ELSE lastOrDefaultLoop(Tail(items), predicate,
                           IF Truthy(Call(predicate, Head(items), Undef))
                           THEN Head(items) ELSE result)

\* before an item is found `result` is not read: !found yields the default
lastOrDefault(items, args) ==
    LET a == toOrDefaultArgs(Argument(args, 1), Argument(args, 2), Len(args))
    IN IF a.threw THEN Thrown ELSE lastOrDefaultLoop(items, a.predicate, a.defaultValue)

RECURSIVE singleOrDefaultLoop(_, _, _, _)
\* the loop of singleOrDefault: a second accepted item throws
singleOrDefaultLoop(items, predicate, found, result) ==
    IF items = << >> THEN Returned(result)
    ELSE IF ~Truthy(Call(predicate, Head(items), Undef))
    THEN singleOrDefaultLoop(Tail(items), predicate, found, result)
    ELSE IF found THEN Thrown
    ELSE singleOrDefaultLoop(Tail(items), predicate, TRUE, Head(items))

singleOrDefault(items, args) ==
    LET a == toOrDefaultArgs(Argument(args, 1), Argument(args, 2), Len(args))
    IN IF a.threw THEN Thrown
       ELSE singleOrDefaultLoop(items, a.predicate, FALSE, a.defaultValue)

\* The values a caller passes as the only argument: truthy and falsy values
\* that are not callable, and a predicate
SingleArguments ==
    {Num(99), Num(0), Str(1), EmptyString, Null, Undef, Bool(FALSE), Bool(TRUE),
     Fn("isString")}

\* The argument lists of the calls: none, one, or a predicate and a default
OrDefaultArguments ==
    {<< >>} \cup {<<d>> : d \in SingleArguments}
            \cup {<<p, Num(99)>> : p \in {Fn("isString"), Null, Num(0), Num(5)}}

\* What the caller reads from a call that returned r: a value, or nothing
\* when it threw
Read(op, args, r) ==
    Final(op, args, [threw |-> r.threw, items |-> IF r.threw THEN << >> ELSE <<r.ret>>])

FirstOrDefault ==
    /\ Open
    /\ \E args \in OrDefaultArguments :
          last' = Read("firstOrDefault", args, firstOrDefault(last.items, args))
    /\ UNCHANGED <<given, heap, cursors>>

LastOrDefault ==
    /\ Open
    /\ \E args \in OrDefaultArguments :
          last' = Read("lastOrDefault", args, lastOrDefault(last.items, args))
    /\ UNCHANGED <<given, heap, cursors>>

SingleOrDefault ==
    /\ Open
    /\ \E args \in OrDefaultArguments :
          last' = Read("singleOrDefault", args, singleOrDefault(last.items, args))
    /\ UNCHANGED <<given, heap, cursors>>

\* The caller reads one item, or a default, off a pipeline that may be empty
NextOrDefault ==
    \/ Zip
    \/ FirstOrDefault \/ LastOrDefault \/ SingleOrDefault
    \/ Again

SpecOrDefault == InitStages /\ [][NextOrDefault]_vars

\* The last call was an ...OrDefault with the single argument d on a sequence
\* with no item
OrDefaultOfEmpty(d) ==
    /\ last.op \in {"firstOrDefault", "lastOrDefault", "singleOrDefault"}
    /\ last.src = << >>
    /\ last.arg = <<d>>

\* C17: for every non-callable value d, truthy or falsy (99, 0, '', null,
\* false), and every sequence with no item, firstOrDefault(d), lastOrDefault(d)
\* and singleOrDefault(d) called with that single argument return d.
C17_OrDefaultReturnsArgument ==
    \A d \in SingleArguments :
        (d.t # "function" /\ OrDefaultOfEmpty(d)) =>
            ~last.threw /\ last.items = <<d>>

\* from([]).firstOrDefault(0) has returned undefined
C17_Witness ==
    /\ last.op = "firstOrDefault"
    /\ given.a = << >>
    /\ last.prev.op = "from"
    /\ OrDefaultOfEmpty(Num(0))
    /\ last.items = <<Undef>>

\* What the code does: the argument comes back when it is truthy or is
\* `false`; for any other falsy argument the result is undefined
C17_OrDefaultOfFalsy ==
    \A d \in SingleArguments :
        (d.t # "function" /\ OrDefaultOfEmpty(d)) =>
            /\ ~last.threw
            /\ last.items = <<IF Truthy(d) \/ d = Bool(FALSE) THEN d ELSE Undef>>

-----------------------------------------------------------------------------
(* join and groupJoin                                                      *)

\* createGroupsForSequence(seq, keySelector): seq.groupBy(keySelector) with
\* no key comparer passed, every group as {key, values}
createGroupsForSequence(seq, keySelector) == groupBy(seq, keySelector, Undef).items

\* innerGroups.where(ig => keyEqualityComparer(og.key, ig.key))
matchingInnerGroups(innerGroups, og, keyEqualityComparer) ==
    SelectSeq(innerGroups, LAMBDA ig : Truthy(Call(keyEqualityComparer, og.key, ig.key)))

\* joinInner, the two innermost loops: every item of the outer group with
\* every item of the inner group, the inner items running faster
joinValues(ogValues, igValues, resultSelector) ==
    [k \in 1 .. Len(ogValues) * Len(igValues) |->
        Call(resultSelector, ogValues[((k - 1) \div Len(igValues)) + 1],
                             igValues[((k - 1) % Len(igValues)) + 1])]

RECURSIVE joinMatching(_, _, _, _)
\* joinInner, the loop over the inner groups that match the outer group og
joinMatching(og, matching, resultSelector, out) ==
    IF matching = << >> THEN out
    ELSE joinMatching(og, Tail(matching), resultSelector,
                      out \o joinValues(og.items, Head(matching).items, resultSelector))

RECURSIVE joinInnerLoop(_, _, _, _, _)
\* joinInner, the loop over the outer groups (the result selectors of the
\* model leave ctxOG.cancel and ctxIG.cancel alone)
joinInnerLoop(outerGroups, innerGroups, resultSelector, keyEqualityComparer, out) ==
    IF outerGroups = << >> THEN out
    ELSE joinInnerLoop(Tail(outerGroups), innerGroups, resultSelector, keyEqualityComparer,
                       joinMatching(Head(outerGroups),
                                    matchingInnerGroups(innerGroups, Head(outerGroups),
                                                        keyEqualityComparer),
                                    resultSelector, out))

\* items.join(inner, outerKeySelector, innerKeySelector, resultSelector,
\* comparer), read to its end
join(items, inner, outerKeySelector, innerKeySelector, resultSelector, comparer) ==
    IF \/ keySelectorSafe(outerKeySelector).threw
       \/ keySelectorSafe(innerKeySelector).threw
       \/ asFunc(resultSelector, TRUE).threw
       \/ toEqualityComparerSafe(comparer).threw
    THEN [threw |-> TRUE, items |-> << >>]
    ELSE [threw |-> FALSE,
          items |-> joinInnerLoop(
                       createGroupsForSequence(items, keySelectorSafe(outerKeySelector).ret),
                       createGroupsForSequence(inner, keySelectorSafe(innerKeySelector).ret),
                       asFunc(resultSelector, TRUE).ret,
                       toEqualityComparerSafe(comparer).ret, << >>)]

\* The result selector of the joins: (o, i) => ({outer: o, inner: i})
ResultSelectors == {Fn("pair")}

\* The key comparers a caller passes to a join: none, `true`, or a function
JoinComparers == {Undef, Bool(TRUE), Fn("strict"), Fn("sameType")}

\* The arguments of a join
JoinArguments ==
    [t : {"arguments"}, ok : KeySelectors, ik : KeySelectors, rs : ResultSelectors,
     c : JoinComparers]

Join ==
    /\ Open
    /\ last.op = "from"
    /\ \E g \in JoinArguments :
          last' = Final("join", g, join(last.items, given.o, g.ok, g.ik, g.rs, g.c))
    /\ UNCHANGED <<given, heap, cursors>>

\* new Grouping(ig.key, ig.values)
Grouping(ig) == [t |-> "Grouping", v |-> 0, key |-> ig.key, items |-> ig.items]

RECURSIVE groupJoinValues(_, _, _, _)
\* groupJoinInner, the loop over the items of one outer group around the
\* loop over matchingInnerGroups: that cursor is made once for the group,
\* `remaining` is what it has yet to yield, and the loop of the first outer
\* item reads it to its end
groupJoinValues(ogValues, remaining, resultSelector, out) ==
    IF ogValues = << >> THEN out
    ELSE groupJoinValues(Tail(ogValues), << >>, resultSelector,
                         out \o [k \in 1 .. Len(remaining) |->
                                    Call(resultSelector, Head(ogValues),
                                         Grouping(remaining[k]))])

RECURSIVE groupJoinInnerLoop(_, _, _, _, _)
\* groupJoinInner, the loop over the outer groups
groupJoinInnerLoop(outerGroups, innerGroups, resultSelector, keyEqualityComparer, out) ==
    IF outerGroups = << >> THEN out
    ELSE groupJoinInnerLoop(Tail(outerGroups), innerGroups, resultSelector,
                            keyEqualityComparer,
                            groupJoinValues(Head(outerGroups).items,
                                            matchingInnerGroups(innerGroups, Head(outerGroups),
                                                                keyEqualityComparer),
                                            resultSelector, out))

\* items.groupJoin(inner, outerKeySelector, innerKeySelector, resultSelector,
\* comparer), read to its end
groupJoin(items, inner, outerKeySelector, innerKeySelector, resultSelector, comparer) ==
    IF \/ keySelectorSafe(outerKeySelector).threw
       \/ keySelectorSafe(innerKeySelector).threw
       \/ asFunc(resultSelector, TRUE).threw
       \/ toEqualityComparerSafe(comparer).threw
    THEN [threw |-> TRUE, items |-> << >>]
    ELSE [threw |-> FALSE,
          items |-> groupJoinInnerLoop(
                       createGroupsForSequence(items, keySelectorSafe(outerKeySelector).ret),
                       createGroupsForSequence(inner, keySelectorSafe(innerKeySelector).ret),
                       asFunc(resultSelector, TRUE).ret,
                       toEqualityComparerSafe(comparer).ret, << >>)]

GroupJoin ==
    /\ Open
    /\ last.op = "from"
    /\ \E g \in JoinArguments :
          last' = Final("groupJoin", g,
                        groupJoin(last.items, given.o, g.ok, g.ik, g.rs, g.c))
    /\ UNCHANGED <<given, heap, cursors>>

-----------------------------------------------------------------------------
(* except                                                                  *)

\* exceptInner: the items of the sequence that the comparer finds equal to
\* no item of itemsToExcept
exceptInner(items, itemsToExcept, equalityComparer) ==
    SelectSeq(items, LAMBDA x :
        \A i \in DOMAIN itemsToExcept : ~Truthy(Call(equalityComparer, x, itemsToExcept[i])))

\* items.except(other, comparer): itemsToExcept is
\* from(makeIterable(other)).distinct().toArray(), a distinct() with no comparer
except(items, other, comparer) ==
    IF toEqualityComparerSafe(comparer).threw THEN [threw |-> TRUE, items |-> << >>]
    ELSE [threw |-> FALSE,
          items |-> exceptInner(items, distinct(other, Undef).items,
                                toEqualityComparerSafe(comparer).ret)]

Except ==
    /\ Open
    /\ last.op = "from"
    /\ \E c \in EqualityComparers : last' = Stage("except", c, except(last.items, given.o, c))
    /\ UNCHANGED <<given, heap, cursors>>

\* The caller combines its array with the other one
NextJoin ==
    \/ Join \/ GroupJoin \/ Except
    \/ Again

SpecJoin == InitStages /\ [][NextJoin]_vars
-----------------------------------------------------------------------------
(* Properties of join                                                      *)

\* The key of an item under the key selector ks of a join
JoinKey(ks, x) == Call(keySelectorSafe(ks).ret, x, Undef)

\* The keys k1 and k2 compare equal under the comparer c of a join
KeysEqual(c, k1, k2) == Truthy(Call(toEqualityComparerSafe(c).ret, k1, k2))

\* The pairs <<p, q>> of a position of outer and a position of inner whose
\* keys compare equal under the comparer
MatchingPairs(outer, inner, g) ==
    {pq \in (DOMAIN outer) \X (DOMAIN inner) :
        KeysEqual(g.c, JoinKey(g.ok, outer[pq[1]]), JoinKey(g.ik, inner[pq[2]]))}

\* The first position of seq whose key compares equal to the key of seq[p]:
\* the first-seen order of the key groups
GroupRank(seq, ks, c, p) ==
    LET same == {i \in DOMAIN seq : KeysEqual(c, JoinKey(ks, seq[i]), JoinKey(ks, seq[p]))}
    IN IF same = {} THEN p ELSE CHOOSE i \in same : \A j \in same : i <= j

\* a comes before b, both lists of numbers of one length
RECURSIVE LexLess(_, _)
LexLess(a, b) ==
    /\ a # << >>
    /\ \/ Head(a) < Head(b)
       \/ Head(a) = Head(b) /\ LexLess(Tail(a), Tail(b))

\* Where the pair pq stands: by outer key group, then inner key group, then
\* outer item and inner item in source order
JoinPlace(outer, inner, g, pq) ==
    <<GroupRank(outer, g.ok, g.c, pq[1]), GroupRank(inner, g.ik, g.c, pq[2]), pq[1], pq[2]>>

\* The results the pairs give, pair by pair in the order of their places
JoinOf(outer, inner, g) ==
    LET pairs == MatchingPairs(outer, inner, g)
        before(pq) == {o \in pairs : LexLess(JoinPlace(outer, inner, g, o),
                                             JoinPlace(outer, inner, g, pq))}
    IN [k \in 1 .. Cardinality(pairs) |->
          LET pq == CHOOSE x \in pairs : Cardinality(before(x)) = k - 1
          IN Call(g.rs, outer[pq[1]], inner[pq[2]])]

\* C18: from(outer).join(inner, ok, ik, rs, cmp) yields exactly one result
\* rs(o, i) for every pair (o, i) of an outer item and an inner item whose
\* keys compare equal under cmp, and no other result; results are ordered by
\* outer key group (first-seen order), then by matching inner key group
\* (first-seen order), then by outer item and inner item in source order.
C18_Join ==
    last.op = "join" =>
        /\ ~last.threw
        /\ last.items = JoinOf(last.src, given.o, last.arg)

\* from([1, '1']).join(['1'], x => x, x => x, rs, (x, y) => x === y) has
\* yielded nothing
C18_Witness ==
    /\ last.op = "join"
    /\ last.src = <<Num(1), Str(1)>>
    /\ given.o = <<Str(1)>>
    /\ last.arg.ok = Undef /\ last.arg.ik = Undef
    /\ last.arg.c = Fn("strict")
    /\ last.items = << >>
    /\ MatchingPairs(last.src, given.o, last.arg) = {<<2, 1>>}

\* What the code does: C18 holds when no comparer is passed, the keys then
\* being grouped and matched by the same ==
C18_JoinByDefaultComparer ==
    (last.op = "join" /\ last.arg.c = Undef) =>
        /\ ~last.threw
        /\ last.items = JoinOf(last.src, given.o, last.arg)


-----------------------------------------------------------------------------
(* Properties of groupJoin                                                 *)

\* The inner key group that opens at position r of inner: the inner items
\* of that key, in source order
InnerGroup(inner, g, r) ==
    [t |-> "Grouping", v |-> 0, key |-> JoinKey(g.ik, inner[r]),
     items |-> SelectSeq(inner, LAMBDA y :
                  KeysEqual(g.c, JoinKey(g.ik, y), JoinKey(g.ik, inner[r])))]

\* The pairs <<p, r>> of a position of outer and the opening position of an
\* inner key group whose key compares equal to the key of outer[p]
GroupMatches(outer, inner, g) ==
    {pr \in (DOMAIN outer) \X (DOMAIN inner) :
        /\ GroupRank(inner, g.ik, g.c, pr[2]) = pr[2]
        /\ KeysEqual(g.c, JoinKey(g.ok, outer[pr[1]]), JoinKey(g.ik, inner[pr[2]]))}

\* The result that the pair pr stands for
GroupJoinResult(outer, inner, g, pr) ==
    Call(g.rs, outer[pr[1]], InnerGroup(inner, g, pr[2]))

\* C19: from(outer).groupJoin(inner, ok, ik, rs, cmp) yields one result
\* rs(o, G) for every outer item o (whether or not other outer items have the
\* same key) and every inner key group G whose key compares equal to o's key,
\* where G contains all inner items of that key in source order.
C19_GroupJoin ==
    last.op = "groupJoin" =>
        LET matches == GroupMatches(last.src, given.o, last.arg)
            result(pr) == GroupJoinResult(last.src, given.o, last.arg, pr)
        IN /\ ~last.threw
           /\ Len(last.items) = Cardinality(matches)
           /\ \A pr \in matches :
                 Cardinality({k \in DOMAIN last.items : last.items[k] = result(pr)})
                    = Cardinality({m \in matches : result(m) = result(pr)})

\* from([1, 1]).groupJoin([1], x => x, x => x, rs) has yielded one result,
\* that of the first 1
C19_Witness ==
    /\ last.op = "groupJoin"
    /\ last.src = <<Num(1), Num(1)>>
    /\ given.o = <<Num(1)>>
    /\ last.arg.ok = Undef /\ last.arg.ik = Undef /\ last.arg.c = Undef
    /\ GroupMatches(last.src, given.o, last.arg) = {<<1, 1>>, <<2, 1>>}
    /\ Len(last.items) = 1

\* What the code does when no comparer is passed: the results C19 names, but
\* only those of the first item of every outer key group
C19_GroupJoinOfFirstItems ==
    (last.op = "groupJoin" /\ last.arg.c = Undef) =>
        LET firsts == {pr \in GroupMatches(last.src, given.o, last.arg) :
                          GroupRank(last.src, last.arg.ok, last.arg.c, pr[1]) = pr[1]}
            result(pr) == GroupJoinResult(last.src, given.o, last.arg, pr)
        IN /\ ~last.threw
           /\ Len(last.items) = Cardinality(firsts)
           /\ \A pr \in firsts : \E k \in DOMAIN last.items : last.items[k] = result(pr)

-----------------------------------------------------------------------------
(* Properties of except                                                    *)

\* C20: for all arrays a and o and every equality comparer c (default loose
\* equality, strict `true`, or custom), from(a).except(o, c).toArray() is, in
\* source order and keeping duplicates, exactly the items x of a for which no
\* item y of o satisfies c(x, y).
C20_Except ==
    last.op = "except" =>
        /\ ~last.threw
        /\ last.items =
              SelectSeq(last.src, LAMBDA x :
                 \A i \in DOMAIN given.o :
                    ~Truthy(Call(toEqualityComparerSafe(last.arg).ret, x, given.o[i])))

\* from(['1']).except([1, '1'], true) has yielded '1'
C20_Witness ==
    /\ last.op = "except"
    /\ last.src = <<Str(1)>>
    /\ given.o = <<Num(1), Str(1)>>
    /\ last.arg = Bool(TRUE)
    /\ last.items = <<Str(1)>>

\* What the code does: C20 holds when no comparer is passed
C20_ExceptByDefaultComparer ==
    (last.op = "except" /\ last.arg = Undef) =>
        /\ ~last.threw
        /\ last.items =
              SelectSeq(last.src, LAMBDA x :
                 \A i \in DOMAIN given.o : ~LooseEquals(x, given.o[i]))

-----------------------------------------------------------------------------
(* toArray with a key selector                                             *)

\* The key selectors a caller passes to toArray: (key, x) => x - 1, and the
\* same setting ctx.cancel at the second item
IndexSelectors == {Callback({1}, -1, -1, {}, {}), Callback({1}, -1, 1, {}, {})}

\* s.toArray(ks)
ToArrayBy(P) ==
    /\ Idle
    /\ \E s \in Sequences, ks \in P :
        \E r \in {toArray(World, s, ks)} :
        /\ Fits(AfterCall(s, r))
        /\ heap' = AfterCall(s, r)
        /\ last' = Outcome("toArray", s, ks, 0, r)
    /\ UNCHANGED <<given, cursors>>

\* The caller turns its sequences into arrays, with and without a selector
NextToArray ==
    \/ From \/ NewIterator \/ FromObject
    \/ Where(Filters)
    \/ ToArray \/ ToArrayBy(IndexSelectors)
    \/ Return

SpecToArray == Init /\ [][NextToArray]_vars

\* The index the key selector of the last call gives the item x
SelectedIndex(x) == x + last.cb.add

\* The key selector of the last call gives the items of a the indexes
\* 0 .. Len(a) - 1, each once
SelectsEveryIndex(a) ==
    {SelectedIndex(a[i]) : i \in DOMAIN a} = 0 .. (Len(a) - 1)

\* C21: toArray(ks) with a key selector ks stores each source item x at
\* index ks(key, x, ctx) of the returned array, so when ks yields distinct
\* valid indices every source item is present in the result at its selected
\* index (and toArray() without a selector appends the items in iteration
\* order).
C21_ToArrayBySelector ==
    OnArray("toArray") =>
        LET a == heap[last.recv].arr
        IN /\ ~last.cb.given => last.arr = a
           /\ (last.cb.given /\ last.cb.cancelAt = -1 /\ SelectsEveryIndex(a)) =>
                 /\ Len(last.arr) = Len(a)
                 /\ \A i \in DOMAIN a : last.arr[SelectedIndex(a[i]) + 1] = a[i]

\* from([2, 1]).toArray((key, x) => x - 1) has called the selector for both
\* items and returned an empty array
C21_Witness ==
    /\ OnArray("toArray")
    /\ heap[last.recv].arr = <<2, 1>>
    /\ last.cb.given /\ last.cb.cancelAt = -1
    /\ SelectsEveryIndex(heap[last.recv].arr)
    /\ Len(last.log) = 2
    /\ last.arr = << >>

\* What the code does: without a selector the items in iteration order,
\* with a selector an empty array whatever the selector returns
C21_ToArrayBySelectorStoresNothing ==
    OnArray("toArray") =>
        last.arr = IF last.cb.given THEN << >> ELSE heap[last.recv].arr

-----------------------------------------------------------------------------
(* reverse                                                                 *)

\* items.order(comparer): orderBy(x => x, comparer)
order(items, comparer) == orderBy(items, Fn("identity"), comparer)

\* items.reverse(): this.order() with the comparer that puts the greater
\* item first
reverse(items) == order(items, Fn("descending"))

Reverse ==
    /\ last.op = "from"
    /\ last' = Stage("reverse", Undef, reverse(last.items))
    /\ UNCHANGED <<given, heap, cursors>>

\* The caller sorts its array, or reverses it
NextReverse ==
    \/ OrderBy \/ Reverse
    \/ Again

SpecReverse == InitOrder /\ [][NextReverse]_vars

\* C22: for every array a, from(a).reverse().toArray() is the items of a in
\* reverse source order: element i of the result is a[|a|-1-i], whatever the
\* values of the items are.
C22_Reverse ==
    last.op = "reverse" =>
        /\ ~last.threw
        /\ Len(last.items) = Len(last.src)
        /\ \A i \in DOMAIN last.items : last.items[i] = last.src[Len(last.src) + 1 - i]

\* from([2, 1]).reverse() has yielded 2, 1
C22_Witness ==
    /\ last.op = "reverse"
    /\ last.src = <<Num(2), Num(1)>>
    /\ last.items = <<Num(2), Num(1)>>

\* What the code does: the items from the greatest to the least, items that
\* are neither less nor greater than each other in source order
C22_ReverseSortsDescending ==
    last.op = "reverse" =>
        /\ ~last.threw
        /\ Len(last.items) = Len(last.src)
        /\ \A i, j \in DOMAIN last.items : i < j => ~JsLess(last.items[i], last.items[j])
        /\ \A x \in Range(last.src) :
              SelectSeq(last.items, LAMBDA y : ~JsLess(x, y) /\ ~JsLess(y, x))
                 = SelectSeq(last.src, LAMBDA y : ~JsLess(x, y) /\ ~JsLess(y, x))

-----------------------------------------------------------------------------
(* Collection, List, HashSet and ReadOnlyCollection                        *)

\* What a method of a collection gives: whether it threw, the value it
\* returned, and the collection as it is after the call
Done(c, x) == [threw |-> FALSE, ret |-> x, c |-> c]
Failed(c) == [threw |-> TRUE, ret |-> Undef, c |-> c]

\* The value of `this`, returned by the methods that can be chained
This == [t |-> "this", v |-> 0]

\* new Collection(seq, comparer): the items of seq in an array of its own
Collection(seq, comparer) ==
    [kind |-> "Collection", arr |-> seq, comparer |-> toEqualityComparerSafe(comparer).ret,
     hasChanged |-> FALSE]

\* new List(seq, comparer)
List(seq, comparer) == [Collection(seq, comparer) EXCEPT !.kind = "List"]

\* new HashSet(seq, comparer): the items of seq that are distinct under the
\* comparer
HashSet(seq, comparer) ==
    [Collection(seq, comparer) EXCEPT
        !.kind = "HashSet",
        !.arr = distinct(seq, toEqualityComparerSafe(comparer).ret).items]

\* new ReadOnlyCollection(arr, comparer)
ReadOnlyCollection(arr, comparer) ==
    [List(arr, comparer) EXCEPT !.kind = "ReadOnlyCollection"]

\* the getter isReadonly: false, overridden by ReadOnlyCollection
isReadonly(c) == c.kind = "ReadOnlyCollection"

\* the getter length
length(c) == Len(c.arr)

\* A throwIfReadOnly that never throws
throwIfReadOnlySilently(c) == FALSE

\* throwIfReadOnly(): whether it throws; its body is the throw statement
throwIfReadOnly(c) == TRUE

\* markAsChanged(func), after func has put the array arr in place
markAsChanged(c, arr) == [c EXCEPT !.arr = arr, !.hasChanged = TRUE]

\* Array.prototype.splice(index, 1) and splice(index, 0, item), index from 0
SpliceOut(arr, index) == SubSeq(arr, 1, index) \o SubSeq(arr, index + 2, Len(arr))
SpliceIn(arr, index, x) == SubSeq(arr, 1, index) \o <<x>> \o SubSeq(arr, index + 1, Len(arr))

\* containsItem(item): some item x of the collection has comparer(x, item)
containsItem(c, x) == \E i \in DOMAIN c.arr : Truthy(Call(c.comparer, c.arr[i], x))

\* Collection.add(item)
collectionAdd(c, x) ==
    IF throwIfReadOnly(c) THEN Failed(c) ELSE Done(markAsChanged(c, Append(c.arr, x)), Undef)

\* HashSet.addIfNotPresent(item)
addIfNotPresent(c, x) ==
    IF containsItem(c, x) THEN Done(c, Bool(FALSE))
    ELSE IF collectionAdd(c, x).threw THEN Failed(c)
    ELSE Done(collectionAdd(c, x).c, Bool(TRUE))

\* add(item): HashSet overrides it
add(c, x) == IF c.kind = "HashSet" THEN addIfNotPresent(c, x) ELSE collectionAdd(c, x)

RECURSIVE addRange(_, _)
\* addRange(...items): add for each item
addRange(c, items) ==
    IF items = << >> THEN Done(c, Undef)
    ELSE IF add(c, Head(items)).threw THEN Failed(add(c, Head(items)).c)
    ELSE addRange(add(c, Head(items)).c, Tail(items))

\* push(...items)
push(c, items) ==
    IF throwIfReadOnly(c) THEN Failed(c)
    ELSE IF addRange(c, items).threw THEN Failed(addRange(c, items).c)
    ELSE Done(addRange(c, items).c, Num(length(addRange(c, items).c)))

\* clear()
clear(c) == IF throwIfReadOnly(c) THEN Failed(c) ELSE Done(markAsChanged(c, << >>), Undef)

RECURSIVE removeAllLoop(_, _, _, _)
\* removeAll, the loop `for (i = 0; i < this._arr.length; i++)` over the
\* array it splices the items out of (the predicates of the model leave
\* ctx.cancel alone)
removeAllLoop(c, p, i, removedItems) ==
    IF i >= Len(c.arr) THEN Done(c, Num(removedItems))
    ELSE IF Truthy(Call(p, c.arr[i + 1], Undef))
    THEN removeAllLoop(markAsChanged(c, SpliceOut(c.arr, i)), p, i + 1, removedItems + 1)
    ELSE removeAllLoop(c, p, i + 1, removedItems)

\* removeAll(predicate)
removeAll(c, predicate) ==
    IF throwIfReadOnly(c) \/ predicateSafe(predicate).threw THEN Failed(c)
    ELSE removeAllLoop(c, predicateSafe(predicate).ret, 0, 0)

\* remove(item): removeAll with a predicate that accepts the first item the
\* comparer finds equal and sets ctx.cancel at the item after it
remove(c, x) ==
    IF throwIfReadOnly(c) THEN Failed(c)
    ELSE LET found == {i \in DOMAIN c.arr : Truthy(Call(c.comparer, c.arr[i], x))}
         IN IF found = {} THEN Done(c, Bool(FALSE))
            ELSE Done(markAsChanged(c, SpliceOut(c.arr,
                         (CHOOSE i \in found : \A j \in found : i <= j) - 1)),
                      Bool(TRUE))

\* setItem(index, item), for an index of the array or the one behind it
setItem(c, index, x) ==
    IF throwIfReadOnly(c) THEN Failed(c)
    ELSE Done(markAsChanged(c, IF index < Len(c.arr) THEN [c.arr EXCEPT ![index + 1] = x]
                                ELSE Append(c.arr, x)), This)

\* List.insert(index, item)
insert(c, index, x) ==
    IF throwIfReadOnly(c) THEN Failed(c)
    ELSE Done(markAsChanged(c, SpliceIn(c.arr, index, x)), Undef)

\* List.removeAt(index)
removeAt(c, index) ==
    IF throwIfReadOnly(c) THEN Failed(c)
    ELSE IF index >= 0 /\ index < Len(c.arr)
    THEN Done(markAsChanged(c, SpliceOut(c.arr, index)), Bool(TRUE))
    ELSE Done(c, Bool(FALSE))

\* from(seq).toSet(comparer)
toSet(seq, comparer) == HashSet(seq, comparer)

\* HashSet.isSupersetOf(other): the loop runs over this.getEnumerator(), the
\* items of the set itself, and asks the set whether it contains them
isSupersetOf(c, other) ==
    IF length(c) < 1 THEN Done(c, Bool(TRUE))
    ELSE IF length(toSet(other, c.comparer)) < 1 THEN Done(c, Bool(TRUE))
    ELSE Done(c, Bool(\A i \in DOMAIN c.arr : containsItem(c, c.arr[i])))

\* The collection the caller holds
Coll == heap[1]

\* The record of the call op(arg) that gave r; the caller holds collections
\* of MaxLen items at most
Calling(op, arg, r) ==
    /\ Len(r.c.arr) <= MaxLen
    /\ heap' = <<r.c>>
    /\ last' = [op |-> op, arg |-> arg, threw |-> r.threw, ret |-> r.ret, before |-> Coll]
    /\ UNCHANGED <<given, cursors>>

\* The lists of items a caller passes to addRange and push
ItemLists == {<< >>, <<Num(2)>>, <<Num(1), Str(1)>>}

\* The classes with the methods of List
Lists == {"List", "ReadOnlyCollection"}

Add == \E x \in JsValues : Calling("add", x, add(Coll, x))

AddRange == \E items \in ItemLists : Calling("addRange", items, addRange(Coll, items))

Push == \E items \in ItemLists : Calling("push", items, push(Coll, items))

Clear == Calling("clear", Undef, clear(Coll))

Remove == \E x \in JsValues : Calling("remove", x, remove(Coll, x))

RemoveAll == \E p \in {Undef, Fn("isString")} : Calling("removeAll", p, removeAll(Coll, p))

SetItem ==
    \E i \in 0 .. Len(Coll.arr), x \in JsValues :
        Calling("setItem", <<i, x>>, setItem(Coll, i, x))

Insert ==
    /\ Coll.kind \in Lists
    /\ \E i \in 0 .. Len(Coll.arr), x \in JsValues :
          Calling("insert", <<i, x>>, insert(Coll, i, x))

RemoveAt ==
    /\ Coll.kind \in Lists
    /\ \E i \in -1 .. Len(Coll.arr) : Calling("removeAt", i, removeAt(Coll, i))

IsSupersetOf ==
    /\ Coll.kind = "HashSet"
    /\ Calling("isSupersetOf", given.o, isSupersetOf(Coll, given.o))

\* No call made yet
NoCall == [op |-> "none", arg |-> Undef, threw |-> FALSE, ret |-> Undef]

\* The comparers a caller constructs its collections with
CollectionComparers == {Undef, Bool(TRUE)}

\* The collections of every class the caller may have made of its array
Constructed ==
    {Collection(given.a, c) : c \in CollectionComparers}
    \cup {List(given.a, c) : c \in CollectionComparers}
    \cup {HashSet(given.a, c) : c \in CollectionComparers}
    \cup {ReadOnlyCollection(given.a, c) : c \in CollectionComparers}

InitCollections ==
    /\ given \in [a : ShortJsArrays, o : ShortJsArrays]
    /\ heap \in {<<c>> : c \in Constructed}
    /\ cursors = {}
    /\ last = NoCall

NextCollections ==
    \/ Add \/ AddRange \/ Push \/ Clear \/ Remove \/ RemoveAll \/ SetItem
    \/ Insert \/ RemoveAt
    \/ IsSupersetOf

SpecCollections == InitCollections /\ [][NextCollections]_vars

-----------------------------------------------------------------------------
(* Properties of the collections                                           *)

\* The calls that change a collection
MutatingCalls ==
    {"add", "addRange", "push", "clear", "remove", "removeAll", "setItem", "insert",
     "removeAt"}

\* C23: on a Collection, List or HashSet that is not read-only (isReadonly
\* is false), every mutating call takes effect without a read-only failure:
\* add(x) on a List appends x as the last item, increases length by one and
\* sets the changed flag; clear() empties it; removeAt(i) with a valid index
\* removes item i; and after any sequence of such calls the items are those
\* the calls describe.
C23_MutableCollections ==
    (last.op \in MutatingCalls /\ ~isReadonly(last.before)) =>
        /\ ~last.threw
        /\ (last.op = "add" /\ last.before.kind = "List") =>
              /\ Coll.arr = Append(last.before.arr, last.arg)
              /\ length(Coll) = length(last.before) + 1
              /\ Coll.hasChanged
        /\ last.op = "clear" => Coll.arr = << >>
        /\ (last.op = "removeAt" /\ last.arg \in 0 .. (length(last.before) - 1)) =>
              Coll.arr = SpliceOut(last.before.arr, last.arg)

\* new List([1]).add(2) has thrown and left the list as it was
C23_Witness ==
    /\ last.op = "add"
    /\ last.before.kind = "List"
    /\ ~isReadonly(last.before)
    /\ last.before.arr = <<Num(1)>>
    /\ last.arg = Num(2)
    /\ last.threw
    /\ Coll.arr = <<Num(1)>>

\* What the code does: every mutating call throws and changes nothing,
\* whatever the class, but an addRange of no item and the add of an item that
\* a HashSet has
C23_EveryMutatingCallThrows ==
    last.op \in MutatingCalls =>
        /\ Coll = last.before
        /\ last.threw <=>
              ~ \/ last.op = "addRange" /\ last.arg = << >>
                \/ /\ last.before.kind = "HashSet"
                   /\ \/ last.op = "add" /\ containsItem(last.before, last.arg)
                      \/ /\ last.op = "addRange"
                         /\ \A i \in DOMAIN last.arg : containsItem(last.before, last.arg[i])

\* C24: on a ReadOnlyCollection, every mutating call (add, push, clear,
\* remove, removeAll, setItem, insert, removeAt, and addRange with at least
\* one item) throws a read-only failure, and after any sequence of such calls
\* the collection's items and length are the same as at construction.
C24_ReadOnlyCollection ==
    isReadonly(Coll) =>
        /\ Coll.arr = given.a
        /\ length(Coll) = Len(given.a)
        /\ (last.op \in MutatingCalls /\ ~(last.op = "addRange" /\ last.arg = << >>)) =>
              last.threw

C24_Witness ==
    /\ isReadonly(Coll)
    /\ last.op = "removeAt"
    /\ last.arg = 0
    /\ Len(given.a) = 2
    /\ last.threw
    /\ Coll.arr = given.a

\* C25: for every HashSet s and every sequence o, s.isSupersetOf(o) returns
\* true if and only if every item of o is contained in s under the set's
\* equality comparer (so a set that lacks some item of o, including an empty
\* set against a non-empty o, is not a superset).
C25_IsSupersetOf ==
    last.op = "isSupersetOf" =>
        /\ ~last.threw
        /\ last.ret = Bool(\A i \in DOMAIN given.o : containsItem(last.before, given.o[i]))

\* new HashSet([1]).isSupersetOf([2]) has returned true
C25_Witness ==
    /\ last.op = "isSupersetOf"
    /\ last.before.arr = <<Num(1)>>
    /\ given.o = <<Num(2)>>
    /\ last.ret = Bool(TRUE)

\* What the code does: isSupersetOf returns true for every set and every o
C25_IsSupersetOfIsAlwaysTrue ==
    last.op = "isSupersetOf" => ~last.threw /\ last.ret = Bool(TRUE)


-----------------------------------------------------------------------------
(* Laziness and demand: what a lazy call and a traversal pull              *)

\* The record of a lazy call on sequence s that returned the sequence r.s:
\* `ok` says that every object that existed before the call is as it was
Lazily(op, s, cb, k, r) ==
    [NoLast EXCEPT !.op = op, !.recv = s, !.cb = cb, !.k = k, !.ret = r.s,
                   !.ok = (SubSeq(r.w.heap, 1, Len(heap)) = heap),
                   !.log = r.w.log]

\* A lazy call that leaves at most n objects
LazyCallUpTo(n, op, s, cb, k, r) ==
    /\ Len(r.w.heap) <= n
    /\ Cardinality({i \in DOMAIN r.w.heap : IsSequence(r.w.heap[i])}) <= MaxSeqs
    /\ heap' = r.w.heap
    /\ last' = Lazily(op, s, cb, k, r)
    /\ UNCHANGED <<given, cursors>>

LazyCall(op, s, cb, k, r) == LazyCallUpTo(MaxHeap, op, s, cb, k, r)

WhereCall(P) ==
    /\ Idle
    /\ \E s \in Sequences, p \in P :
        \E r \in {where(World, s, p)} : LazyCall("where", s, p, 0, r)

SelectCall(P) ==
    /\ Idle
    /\ \E s \in Sequences, f \in P :
        \E r \in {select(World, s, f)} : LazyCall("select", s, f, 0, r)

ConcatCall(A) ==
    /\ Idle
    /\ \E s \in Sequences, a \in A :
        \E r \in {concat(World, s, ArrayArg(a))} : LazyCall("concat", s, NoCallback, 0, r)

TakeWhile(P) ==
    /\ Idle
    /\ \E s \in Sequences, p \in P :
        \E r \in {takeWhile(World, s, p)} : LazyCall("takeWhile", s, p, 0, r)

Take(C) ==
    /\ Idle
    /\ \E s \in Sequences, cnt \in C :
        \E r \in {take(World, s, cnt)} : LazyCall("take", s, NoCallback, cnt, r)

SkipWhile(P) ==
    /\ Idle
    /\ \E s \in Sequences, p \in P :
        \E r \in {skipWhile(World, s, p)} : LazyCall("skipWhile", s, p, 0, r)

Skip(C) ==
    /\ Idle
    /\ \E s \in Sequences, cnt \in C :
        \E r \in {skip(World, s, cnt)} : LazyCall("skip", s, NoCallback, cnt, r)

SkipLast ==
    /\ Idle
    /\ \E s \in Sequences :
        \E r \in {skipLast(World, s)} : LazyCall("skipLast", s, NoCallback, 0, r)

DefaultIfEmpty(A) ==
    /\ Idle
    /\ \E s \in Sequences, args \in A :
        \E r \in {defaultIfEmpty(World, s, args)} :
            LazyCall("defaultIfEmpty", s, NoCallback, Len(args), r)

DistinctCall ==
    /\ Idle
    /\ \E s \in Sequences :
        \E r \in {distinct_(World, s)} : LazyCall("distinct", s, NoCallback, 0, r)

SelectManyCall(P) ==
    /\ Idle
    /\ \E s \in Sequences, f \in P :
        \E r \in {selectMany(World, s, f)} : LazyCall("selectMany", s, f, 0, r)

ZipCall(A, P) ==
    /\ Idle
    /\ \E s \in Sequences, a \in A, z \in P :
        \E r \in {zip_(World, s, ArrayArg(a), z)} :
            LazyCallUpTo(MaxLazyHeap, "zip", s, z, Len(a), r)

\* Predicates of takeWhile: one that never cancels, and for every index one
\* that cancels there and answers true for the item 1 only
Cancellers == { Callback({1}, 1, c, {}, {}) : c \in -1 .. (MaxLen - 1) }

\* The counts a caller passes to take: none of the items up to all of them
Counts == 0 .. MaxLen

\* The counts and the array the calls of every lazy operator are tried with
FewCounts == {0, 1}
OneOther == {<<1, 2>>}

\* The caller derives lazy sequences from array-backed and one-shot sources
\* and traverses them
NextLazy ==
    \/ From \/ NewIterator \/ FromObject
    \/ WhereCall(Filters) \/ SelectCall(Filters) \/ ConcatCall(Others)
    \/ TakeWhile(Cancellers) \/ Take(Counts)
    \/ ToArray \/ Return

SpecLazy == Init /\ [][NextLazy]_vars

\* The caller calls every lazy operator on array-backed and one-shot sources
\* and traverses what the calls returned
NextLazyCalls ==
    \/ From \/ NewIterator \/ FromObject
    \/ WhereCall(Filters) \/ SelectCall(Filters) \/ SelectManyCall(FiltersOrNone)
    \/ SkipWhile(Filters) \/ Skip(FewCounts) \/ TakeWhile(Filters) \/ Take(FewCounts)
    \/ ConcatCall(OneOther) \/ DistinctCall \/ ZipCall(OneOther, FiltersOrNone)
    \/ DefaultIfEmpty(OneOther) \/ SkipLast
    \/ ToArray \/ Return

SpecLazyCalls == Init /\ [][NextLazyCalls]_vars

LazyOps ==
    {"where", "select", "selectMany", "skipWhile", "skip", "takeWhile", "take", "concat",
     "distinct", "zip", "defaultIfEmpty", "skipLast"}

\* The cursor of sequence s has never been advanced and its generator, if it
\* has one, has not run a statement
NotStarted(h, s) ==
    /\ h[s].kind = "Enumerable"
    /\ h[h[s].enumerator].index = -1
    /\ ~h[h[s].enumerator].current.set
    /\ h[h[s].enumerator].iterator.pc = "start"

\* C26: a call of a lazy operator (where, select, selectMany, skipWhile,
\* skip, takeWhile, take, concat, distinct, zip, defaultIfEmpty, skipLast)
\* leaves every object that existed as it was, the receiver's cursor
\* included, invokes no callback, and returns a sequence whose generator has
\* not started; a generator starts only when the cursor that owns it is
\* advanced.
C26_LazyOperators ==
    /\ last.op \in LazyOps =>
          /\ last.ok
          /\ last.log = << >>
          /\ NotStarted(heap, last.ret)
    /\ \A id \in DOMAIN heap :
          (IsCursor(heap[id]) /\ heap[id].index = -1 /\ "pc" \in DOMAIN heap[id].iterator)
              => heap[id].iterator.pc = "start"

C26_Witness ==
    /\ last.op = "where"
    /\ last.cb.user
    /\ given = <<1, 2>>
    /\ heap[last.recv].kind = "Enumerable"
    /\ heap[heap[last.recv].enumerator].iterator.kind = "object"
    /\ Untouched(heap, last.recv)


\* Sequence s was made over a plain one-shot iterator
OneShot(s) ==
    /\ heap[s].kind = "Enumerable"
    /\ heap[heap[s].enumerator].iterator.kind = "object"
    /\ heap[heap[heap[s].enumerator].iterator.id].kind = "Iterator"

\* The number of items the one-shot source of s has handed out
Pulled(s) == heap[heap[heap[s].enumerator].iterator.id].pos

\* Sequence t is s.take(n) or s.takeWhile(p) for some sequence s
Taken(t) ==
    /\ heap[t].kind = "Enumerable"
    /\ heap[heap[t].enumerator].iterator.kind = "takeWhileInner"

TakeFrame(t) == heap[heap[t].enumerator].iterator

\* The last call was the first traversal of s.take(n), s a one-shot sequence
\* nothing had been pulled from
TakeTraversed ==
    /\ last.op = "toArray"
    /\ last.untouched
    /\ Taken(last.recv)
    /\ TakeFrame(last.recv).predicate.below >= 0
    /\ OneShot(TakeFrame(last.recv).this)

\* The sequences s.take(n) that were traversed before the last call, which
\* is the first traversal of the one-shot sequence s itself
TakenBefore ==
    IF last.op = "toArray" /\ OneShot(last.recv) /\ ~last.exhausted
    THEN {t \in Sequences : /\ Taken(t)
                            /\ TakeFrame(t).this = last.recv
                            /\ TakeFrame(t).predicate.below >= 0
                            /\ TakeFrame(t).pc = "done"
                            /\ TakeFrame(t).index >= 0}
    ELSE {}

\* C27: when s.take(n) has been traversed, the one-shot source of s has
\* handed out at most n items, and the next traversal of s starts with the
\* item at position n.
C27_Take ==
    /\ TakeTraversed =>
          Pulled(TakeFrame(last.recv).this) <= TakeFrame(last.recv).predicate.below
    /\ \A t \in TakenBefore :
          LET n == TakeFrame(t).predicate.below IN
          Len(given) > n => last.arr = SubSeq(given, n + 1, Len(given))

C27_Witness ==
    /\ given = <<1, 2, 1>>
    /\ \E t \in TakenBefore : TakeFrame(t).predicate.below = 1
    /\ last.arr = <<1>>

\* What take(n) does: its loop pulls the item at position n before the
\* predicate turns it down, so the source has handed out n + 1 items (all of
\* them when there are no more), and the next traversal of s starts at
\* position n + 1.
C27_TakePullsOneMore ==
    /\ TakeTraversed =>
          LET n == TakeFrame(last.recv).predicate.below IN
          /\ last.arr = SubSeq(given, 1, Min(n, Len(given)))
          /\ Pulled(TakeFrame(last.recv).this) = Min(n + 1, Len(given))
    /\ \A t \in TakenBefore :
          LET n == TakeFrame(t).predicate.below IN
          last.arr = SubSeq(given, n + 2, Len(given))


\* The last call was the first traversal of s.takeWhile(p), s a one-shot
\* sequence nothing had been pulled from, and p set cancel at the item of
\* index `at`
TakeWhileCancelled(at) ==
    /\ last.op = "toArray"
    /\ last.untouched
    /\ Taken(last.recv)
    /\ TakeFrame(last.recv).predicate.user
    /\ TakeFrame(last.recv).predicate.cancelAt = at
    /\ OneShot(TakeFrame(last.recv).this)
    /\ \E k \in DOMAIN last.log : last.log[k].index = at

\* C29: once the predicate of takeWhile has set cancel at an item, no later
\* item is yielded, none is pulled from upstream and the predicate is not
\* called again, whatever the predicate returned.
C29_TakeWhileCancel ==
    \A at \in 0 .. (MaxLen - 1) :
        TakeWhileCancelled(at) =>
            /\ Len(last.arr) <= at + 1
            /\ Pulled(TakeFrame(last.recv).this) <= at + 1
            /\ \A k \in DOMAIN last.log : last.log[k].index <= at

C29_Witness ==
    /\ given = <<1, 1, 2>>
    /\ TakeWhileCancelled(0)
    /\ last.arr = <<1, 1, 2>>
    /\ Len(last.log) = 3

\* What takeWhile does with cancel: when the predicate answered false at the
\* cancelling item the loop stops there, as it would have without cancel;
\* when it answered true, that item and every later item is yielded, the
\* predicate being called for each and its answer ignored.
C29_TakeWhileCancelTakesTheRest ==
    \A at \in 0 .. (MaxLen - 1) :
        TakeWhileCancelled(at) =>
            IF given[at + 1] \in TakeFrame(last.recv).predicate.accept
            THEN /\ last.arr = given
                 /\ Pulled(TakeFrame(last.recv).this) = Len(given)
                 /\ Len(last.log) = Len(given)
            ELSE /\ last.arr = SubSeq(given, 1, at)
                 /\ Pulled(TakeFrame(last.recv).this) = at + 1


-----------------------------------------------------------------------------
(* Calls that stop at their answer                                         *)

StoppingOps == {"first", "firstOrDefault", "any", "elementAt"}

\* Predicates that match the item 1, the item 2, and every item
Matchers == {Callback({1}, 1, -1, {}, {}), Callback({2}, 1, -1, {}, {}), NoCallback}

FirstOrDefaultCall(P) ==
    /\ Idle
    /\ \E s \in Sequences, p \in P \ {NoCallback} :
        \E r \in {firstOrDefault_(World, s, p, Undefined)} :
        /\ Fits(AfterCall(s, r))
        /\ heap' = AfterCall(s, r)
        /\ last' = Outcome("firstOrDefault", s, p, 0, r)
    /\ UNCHANGED <<given, cursors>>

\* The positions (from 0) of the items the last call was looking for
MatchPositions ==
    IF last.op = "elementAt" THEN {last.k} \cap (0 .. (Len(given) - 1))
    ELSE IF last.cb.given THEN {i \in 0 .. (Len(given) - 1) : given[i + 1] \in last.cb.accept}
    ELSE 0 .. (Len(given) - 1)

\* The last call looked for an item in a one-shot sequence nothing had been
\* pulled from, and the first item it was looking for is at position k
StoppedAt(k) ==
    /\ last.op \in StoppingOps
    /\ heap[last.recv].kind = "Enumerable"
    /\ OneShot(last.recv)
    /\ last.untouched
    /\ k \in MatchPositions
    /\ \A j \in MatchPositions : k <= j

\* s.toArray() right after one of these calls on the same one-shot s; the
\* record keeps the call and the position it stopped at
ToArrayNext ==
    \E s \in Sequences, k \in 0 .. (MaxLen - 1) :
        \E r \in {toArray(World, s, NoCallback)} :
        /\ StoppedAt(k)
        /\ last.recv = s
        /\ Fits(AfterCall(s, r))
        /\ heap' = AfterCall(s, r)
        /\ last' = [Outcome("toArray", s, NoCallback, 0, r) EXCEPT
                        !.prev = [op |-> last.op, recv |-> s, n |-> k]]
        /\ UNCHANGED <<given, cursors>>

\* The caller asks one-shot and array-backed sequences for an item and then
\* traverses what is left
NextStopping ==
    \/ From \/ NewIterator \/ FromObject
    \/ First(Matchers) \/ FirstOrDefaultCall(Matchers) \/ AnyCall(Matchers) \/ ElementAt
    \/ ToArray \/ ToArrayNext \/ Return

SpecStopping == Init /\ [][NextStopping]_vars

\* C28: when the first item that first(p), firstOrDefault(p), any(p) or
\* elementAt(k) is looking for is at position k of a one-shot sequence, the
\* call returns with the cursor at key k and k + 1 items pulled from the
\* source, its answer is that item (true for any), and a toArray() of the
\* same sequence right after returns the items from position k + 1 on.
C28_StopAtAnswer ==
    /\ \A k \in 0 .. (MaxLen - 1) :
          StoppedAt(k) =>
              /\ ~last.threw
              /\ last.ekey = k
              /\ Pulled(last.recv) = k + 1
              /\ IF last.op = "any" THEN last.ret = TRUE ELSE last.ret = given[k + 1]
    /\ (last.op = "toArray" /\ last.prev.op \in StoppingOps) =>
          last.arr = SubSeq(given, last.prev.n + 2, Len(given))

C28_Witness ==
    /\ given = <<1, 2, 1>>
    /\ last.op = "toArray"
    /\ last.prev.op = "first"
    /\ last.prev.n = 1
    /\ last.arr = <<1>>


-----------------------------------------------------------------------------
(* Ordered sequences as objects: the cursor of an OrderedEnumerable        *)

RECURSIVE mapSortValues(_, _, _, _, _, _, _)
\* The map over _originalItems in the constructor: one moveNext() of the
\* local cursor oi and one selector call per item
mapSortValues(w, oi, selector, arr, i, st, out) ==
    IF i > Len(arr) THEN [w |-> w, out |-> out]
    ELSE Bind(moveNext(w, oi), LAMBDA mv :
         IF ~mv.ret THEN mapSortValues(mv.w, oi, selector, arr, i + 1, st, out)
         ELSE Bind(toSelectorSafe(mv.w, selector, LoopContext(oi, st), 0), LAMBDA c :
              mapSortValues(c.w, oi, selector, arr, i + 1, LoopNext(st, c.ctx),
                            Append(out, [sortBy |-> c.ret, value |-> arr[i]]))))

RECURSIVE sortBySortValue(_, _, _)
\* .sort((x, y) => me.comparer(x.sortBy, y.sortBy)) with the default comparer,
\* or with (x, y) => c(y, x) for orderByDescending.  Items with equal sort
\* values are equal numbers here, so the place of ties cannot be observed.
sortBySortValue(arr, descending, out) ==
    IF arr = << >> THEN out
    ELSE LET sv == Head(arr)
             c(x, y) == IF x < y THEN -1 ELSE IF x > y THEN 1 ELSE 0
             comparer(x, y) == IF descending THEN c(y, x) ELSE c(x, y)
             behind == {i \in 1 .. Len(out) : comparer(out[i].sortBy, sv.sortBy) <= 0}
             pos == IF behind = {} THEN 0 ELSE CHOOSE i \in behind : \A j \in behind : j <= i
         IN sortBySortValue(Tail(arr), descending,
                            SubSeq(out, 1, pos) \o <<sv>> \o SubSeq(out, pos + 1, Len(out)))

\* new OrderedEnumerable(seq, selector, comparer): seq.toArray() is taken at
\* once, the sort values are made with the local cursor oi, and _enumerator
\* is the one ArrayEnumerator over the sorted array that this object will
\* ever hand out (the cursors local to the constructor are gone on return)
newOrderedEnumerable(w, seq, selector, descending) ==
    Bind(toArray(w, seq, NoCallback), LAMBDA r :
    LET w0 == [r.w EXCEPT !.heap = IF w.heap[seq].kind = "ArrayEnumerable"
                                   THEN SubSeq(@, 1, Len(w.heap)) ELSE @]
        w1 == Alloc(w0, ArrayEnumerator(r.arr))
    IN Bind(mapSortValues(w1, Len(w1.heap), selector, r.arr, 1, LoopStart, << >>), LAMBDA m :
       LET sorted == sortBySortValue(m.out, descending, << >>)
           w2 == [m.w EXCEPT !.heap = SubSeq(@, 1, Len(w0.heap))]
           w3 == Alloc(w2, ArrayEnumerator([i \in 1 .. Len(sorted) |-> sorted[i].value]))
       IN [w |-> Alloc(w3, [kind |-> "Enumerable", enumerator |-> Len(w3.heap),
                            originalItems |-> r.arr]),
           s |-> Len(w3.heap) + 1]))

\* s.orderBy(selector) and s.orderByDescending(selector); order() is
\* orderBy(x => x)
OrderByCall(P) ==
    /\ Idle
    /\ \E s \in Sequences, f \in P, descending \in BOOLEAN :
        \E r \in {newOrderedEnumerable(World, s, f, descending)} :
        /\ Fits(r.w.heap)
        /\ heap' = r.w.heap
    /\ UNCHANGED <<given, cursors, last>>

\* Selectors of the sort value: none (order) and x => x + 1
SortValueSelectors == {NoCallback, Callback({1}, 1, -1, {}, {})}

\* The caller orders array-backed and one-shot sequences and traverses the
\* ordered sequence, more than once
NextOrdered ==
    \/ From \/ NewIterator \/ FromObject
    \/ OrderByCall(SortValueSelectors)
    \/ ToArray \/ Count(Plain) \/ Return

SpecOrdered == Init /\ [][NextOrdered]_vars

\* Sequence s is an ordered sequence
IsOrdered(s) == "originalItems" \in DOMAIN heap[s]

\* The sorted array of the ordered sequence s
SortedItems(s) == heap[heap[s].enumerator].arr

\* The sequence a is in ascending or in descending order
InAscendingOrder(a) == \A i \in 1 .. (Len(a) - 1) : a[i] <= a[i + 1]
InDescendingOrder(a) == \A i \in 1 .. (Len(a) - 1) : a[i] >= a[i + 1]

\* C30: every toArray() of an ordered sequence returns all its sorted items
\* and every count() their number, whether or not the same object has been
\* traversed before.
C30_OrderedTwice ==
    (last.op \in {"toArray", "count"} /\ IsOrdered(last.recv)) =>
        /\ InAscendingOrder(SortedItems(last.recv)) \/ InDescendingOrder(SortedItems(last.recv))
        /\ Len(SortedItems(last.recv)) = Len(heap[last.recv].originalItems)
        /\ IF last.op = "toArray" THEN last.arr = SortedItems(last.recv)
                                  ELSE last.ret = Len(SortedItems(last.recv))

C30_Witness ==
    /\ given = <<2, 1, 2>>
    /\ last.op = "toArray"
    /\ IsOrdered(last.recv)
    /\ SortedItems(last.recv) = <<1, 2, 2>>
    /\ last.prev.op = "toArray"
    /\ last.prev.recv = last.recv
    /\ last.prev.n = 3
    /\ last.arr = << >>

\* What an ordered sequence does: its one cursor is handed to every
\* traversal, so the first one sees all the sorted items and every later one
\* sees none.
C30_OrderedOnce ==
    (last.op \in {"toArray", "count"} /\ IsOrdered(last.recv)) =>
        LET seen == IF last.exhausted THEN << >> ELSE SortedItems(last.recv) IN
        /\ last.untouched \/ last.exhausted
        /\ IF last.op = "toArray" THEN last.arr = seen ELSE last.ret = Len(seen)
====
